---- MODULE Spec2Model ----
(***************************************************************************)
(* A model of dot-context (dcx): the context-set resolution engine of      *)
(* context_sets.py and the query pipeline of query.py.                     *)
(*                                                                         *)
(* Paths are numbered in the order pathlib sorts them:                     *)
(*   1 file1.md   2 file2.md   3 file4.txt   4 subfolder (a directory)     *)
(*   5 subfolder/file3.md                                                  *)
(* Set names, patterns and console answers are strings.                    *)
(***************************************************************************)
EXTENDS Integers, Sequences, FiniteSets, TLC

VARIABLES
    sets_config,   \* the "Sets" section of the .context file: name -> [match, include]
    context_set,   \* the ContextSet object get_matching_files is called on
    all_sets,      \* the all_sets argument of that call
    resolved,      \* TRUE once get_matching_files has returned
    matching,      \* what the call returned and did
    unreadable,    \* the files open() fails on
    OPENAI_AVAILABLE,     \* providers/__init__.py: the openai package imports
    ANTHROPIC_AVAILABLE,  \* providers/__init__.py: the anthropic package imports
    set_name,      \* execute_query's set_name argument, a sequence of characters
    stream,        \* execute_query's stream argument
    pc,            \* the step execute_query is at
    failure,       \* why the invocation ended in Failed ("" while it has not)
    calls,         \* the operations execute_query has called, in order
    warnings,      \* the set names a "not found" warning was printed for
    answer,        \* what the user typed at the confirmation prompt
    config,        \* what load_config returned
    files_count,   \* the file count shown on the "Context:" line
    context_files, \* the list handed to format_context_from_files
    context,       \* the context: one section per file read
    total_tokens,  \* the token total of the context
    provider,      \* what get_provider returned
    validated,     \* what provider.validate_config() returned
    prompt,        \* what create_prompt returned
    thinking,      \* the "Thinking..." status is shown
    gen,           \* the state of the generator get_completion_stream returned
    pulls,         \* how many times next() was called on it
    response_text, \* the response shown: the chunks received so far
    provider_config, \* the Models entry the provider was constructed from
    backend_reply, \* what the backend did with the get_completion request
    completion,    \* what get_completion returned
    text,          \* the text count_tokens_simple is called on, a sequence of characters
    tokens,        \* what count_tokens_simple returned
    shown,         \* what format_token_count returned
    contents,      \* the text of each file of the context, by path
    context_text,  \* the context string of format_context_from_files
    prompts        \* create_prompt's prompt with the file names and without

resolveVars == <<context_set, all_sets, resolved, matching>>

envVars == <<sets_config, unreadable, OPENAI_AVAILABLE, ANTHROPIC_AVAILABLE>>

queryVars ==
    <<set_name, stream, pc, failure, calls, warnings, answer, config, files_count,
      context_files, context, total_tokens, provider, validated, prompt,
      thinking, gen, pulls, response_text, provider_config, backend_reply, completion>>

textVars == <<text, tokens, shown, contents, context_text, prompts>>

\* groups of them, for what a step leaves alone
fixedVars == <<resolveVars, envVars, set_name, stream, textVars>>

contextVars == <<warnings, answer, files_count, context_files, context, total_tokens>>

streamVars == <<thinking, gen, pulls, response_text>>

completionVars == <<backend_reply, completion>>

vars == <<resolveVars, envVars, queryVars, textVars>>

----------------------------------------------------------------------------
(* Bounds of the model *)

\* longest "match" list of the set under resolution
MaxPatterns == 2

\* longest "include" list of the set under resolution
MaxIncludes == 2

\* most set names in one request
MaxSetNames == 2

\* most text chunks the backend streams
MaxChunks == 2

----------------------------------------------------------------------------
(* Helpers *)

Range(s) == {s[i] : i \in DOMAIN s}

Max(a, b) == IF a >= b THEN a ELSE b

\* all sequences over S of length at most n
BSeq(S, n) == UNION {[1..k -> S] : k \in 0..n}

----------------------------------------------------------------------------
(* The file system under base_dir, as glob and os.path see it *)

\* glob.glob(os.path.join(base_dir, pattern), recursive=True): the paths in
\* the order the directory scan yields them, directories included
Glob(pattern) ==
    CASE pattern = "*.md" -> <<2, 1>>
      [] pattern = "subfolder/*.md" -> <<5>>
      [] pattern = "*.txt" -> <<3>>
      [] pattern = "**/*" -> <<2, 4, 5, 1, 3>>
      [] OTHER -> <<>>

\* os.path.isfile (IsFileAny: the test left out)
IsFileAny(path) == TRUE
IsFile(path) == path # 4

----------------------------------------------------------------------------
(* context_sets.py: ContextSet *)

\* ContextSet.__init__
ContextSet(name, set_config) ==
    [name |-> name, match_patterns |-> set_config.match, includes |-> set_config.include]

\* all_sets=None, and all_sets=<a dict>
NoSets == [given |-> FALSE, sets |-> <<>>]
SomeSets(sets) == [given |-> TRUE, sets |-> sets]

\* the loop "for pattern in self.match_patterns" adding to the set matching_files
RECURSIVE MatchLoop(_, _)
MatchLoop(patterns, matching_files) ==
    IF patterns = <<>> THEN matching_files
    ELSE MatchLoop(Tail(patterns),
                   matching_files \cup {p \in Range(Glob(Head(patterns))) : IsFile(p)})

\* list(matching_files) left in the set's own iteration order
RECURSIVE Unsorted(_)
Unsorted(S) ==
    IF S = {} THEN <<>>
    ELSE LET m == CHOOSE x \in S : \A y \in S : x >= y
         IN <<m>> \o Unsorted(S \ {m})

\* sorted(list(matching_files)): ascending path order
RECURSIVE Sorted(_)
Sorted(S) ==
    IF S = {} THEN <<>>
    ELSE LET m == CHOOSE x \in S : \A y \in S : x <= y
         IN <<m>> \o Sorted(S \ {m})

\* the guard "if include_name != self.name" (NotSelfAlways: the guard left out)
NotSelfAlways(include_name, self) == TRUE
NotSelf(include_name, self) == include_name # self.name

\* matching_files.update(included_files) (UpdateReplacing: an assignment in
\* its place)
UpdateReplacing(matching_files, included_files) == Range(included_files)
Update(matching_files, included_files) == matching_files \cup Range(included_files)

\* the registry handed to the recursive call, its sets without their
\* includes: one more level expanded
PassedDownOnce(sets) ==
    SomeSets([n \in DOMAIN sets.sets |-> [sets.sets[n] EXCEPT !.includes = <<>>]])

\* what the recursive call is given as all_sets: nothing
PassedDown(sets) == NoSets

\* the branch "else" of "if include_name in all_sets": the warning printed,
\* matching_files as they are (SkippedSilently: no warning)
SkippedSilently(acc, include_name) == acc
Skipped(acc, include_name) == [acc EXCEPT !.warnings = Append(@, include_name)]

RECURSIVE get_matching_files(_, _)
RECURSIVE IncludeLoop(_, _, _, _)

\* the loop "for include_name in self.includes"; acc carries matching_files,
\* the warnings printed, the nested get_matching_files calls made (by set
\* name) and the depth of the deepest nested call
IncludeLoop(self, sets, includes, acc) ==
    IF includes = <<>> THEN acc
    ELSE LET include_name == Head(includes) IN
         IF include_name \in DOMAIN sets.sets
         THEN IF NotSelf(include_name, self)
              THEN LET inner == get_matching_files(sets.sets[include_name], PassedDown(sets))
                   IN IncludeLoop(self, sets, Tail(includes),
                          [files |-> Update(acc.files, inner.files),
                           warnings |-> acc.warnings \o inner.warnings,
                           calls |-> Append(acc.calls, include_name) \o inner.calls,
                           depth |-> Max(acc.depth, 1 + inner.depth)])
              ELSE IncludeLoop(self, sets, Tail(includes), acc)
         ELSE IncludeLoop(self, sets, Tail(includes), Skipped(acc, include_name))

\* ContextSet.get_matching_files
get_matching_files(self, sets) ==
    LET direct == [files |-> MatchLoop(self.match_patterns, {}),
                   warnings |-> <<>>, calls |-> <<>>, depth |-> 0]
        acc == IF sets.given THEN IncludeLoop(self, sets, self.includes, direct)
               ELSE direct
    IN [files |-> Sorted(acc.files), warnings |-> acc.warnings,
        calls |-> acc.calls, depth |-> acc.depth]

\* load_context_sets: one ContextSet per entry of the "Sets" section
load_context_sets(sets) ==
    [n \in DOMAIN sets |-> ContextSet(n, sets[n])]

----------------------------------------------------------------------------
(* context_sets.py: get_context_set_files *)

\* get_context_set_files resolving the set on its own, the registry not
\* handed to get_matching_files
get_context_set_files_alone(name, sets) ==
    LET context_sets == load_context_sets(sets)
    IN IF name \notin DOMAIN context_sets
       THEN [raised |-> TRUE, files |-> <<>>, warnings |-> <<>>]
       ELSE LET r == get_matching_files(context_sets[name], NoSets)
            IN [raised |-> FALSE, files |-> r.files, warnings |-> r.warnings]

\* get_context_set_files without its KeyError: no files for an unknown name
get_context_set_files_lenient(name, sets) ==
    LET context_sets == load_context_sets(sets)
    IN IF name \notin DOMAIN context_sets
       THEN [raised |-> FALSE, files |-> <<>>, warnings |-> <<>>]
       ELSE LET r == get_matching_files(context_sets[name], SomeSets(context_sets))
            IN [raised |-> FALSE, files |-> r.files, warnings |-> r.warnings]

\* get_context_set_files(set_name, config_path): KeyError for a name that is
\* not in the registry, else the set resolved with the registry
get_context_set_files(name, sets) ==
    LET context_sets == load_context_sets(sets)
    IN IF name \notin DOMAIN context_sets
       THEN [raised |-> TRUE, files |-> <<>>, warnings |-> <<>>]
       ELSE LET r == get_matching_files(context_sets[name], SomeSets(context_sets))
            IN [raised |-> FALSE, files |-> r.files, warnings |-> r.warnings]

----------------------------------------------------------------------------
(* query.py: building the context *)

\* count_tokens_in_file(path)["tokens"] of each regular file
FileTokens(path) ==
    CASE path = 1 -> 3
      [] path = 2 -> 4
      [] path = 3 -> 5
      [] path = 5 -> 7
      [] OTHER -> 0

\* the loop ended by the first file that does not open
RECURSIVE FormatLoopStopping(_, _, _)
FormatLoopStopping(files, closed, acc) ==
    IF files = <<>> THEN acc
    ELSE LET file_path == Head(files) IN
         IF file_path \in closed
         THEN acc
         ELSE FormatLoopStopping(Tail(files), closed,
                  [context |-> Append(acc.context,
                                      [header |-> file_path, content |-> file_path]),
                   total_tokens |-> acc.total_tokens + FileTokens(file_path)])

\* the loop of format_context_from_files: a section per file that opens, the
\* file's tokens added to the total; a file that does not open is skipped
RECURSIVE FormatLoop(_, _, _)
FormatLoop(files, closed, acc) ==
    IF files = <<>> THEN acc
    ELSE LET file_path == Head(files) IN
         IF file_path \in closed
         THEN FormatLoop(Tail(files), closed, acc)
         ELSE FormatLoop(Tail(files), closed,
                  [context |-> Append(acc.context,
                                      [header |-> file_path, content |-> file_path]),
                   total_tokens |-> acc.total_tokens + FileTokens(file_path)])

\* format_context_from_files(files)
format_context_from_files(files, closed) ==
    FormatLoop(files, closed, [context |-> <<>>, total_tokens |-> 0])

\* all_files after "except KeyError" of a set that is not found
\* (AfterMissingCleared: the files collected so far dropped)
AfterMissingCleared(all_files) == <<>>
AfterMissing(all_files) == all_files

\* the first loop of format_context_from_multiple_sets: the files of every set
\* found, a warning for every set that is not
RECURSIVE CollectLoop(_, _, _)
CollectLoop(set_names, sets, acc) ==
    IF set_names = <<>> THEN acc
    ELSE LET r == get_context_set_files(Head(set_names), sets) IN
         CollectLoop(Tail(set_names), sets,
             IF r.raised
             THEN [all_files |-> AfterMissing(acc.all_files),
                   warnings |-> Append(acc.warnings, Head(set_names)),
                   calls |-> Append(acc.calls, "get_context_set_files")]
             ELSE [all_files |-> acc.all_files \o r.files,
                   warnings |-> acc.warnings \o r.warnings,
                   calls |-> Append(acc.calls, "get_context_set_files")])

\* the second loop left out: all_files as collected
UniqueLoopKeeping(all_files, unique_files) == unique_files \o all_files

\* the second loop: "Remove duplicates while preserving order"
RECURSIVE UniqueLoop(_, _)
UniqueLoop(all_files, unique_files) ==
    IF all_files = <<>> THEN unique_files
    ELSE UniqueLoop(Tail(all_files),
                    IF Head(all_files) \in Range(unique_files) THEN unique_files
                    ELSE Append(unique_files, Head(all_files)))

\* format_context_from_multiple_sets(set_names, config_path)
format_context_from_multiple_sets(set_names, sets, closed) ==
    LET collected == CollectLoop(set_names, sets,
                                 [all_files |-> <<>>, warnings |-> <<>>, calls |-> <<>>])
        unique_files == UniqueLoop(collected.all_files, <<>>)
        formatted == format_context_from_files(unique_files, closed)
    IN [files |-> unique_files,
        context |-> formatted.context,
        total_tokens |-> formatted.total_tokens,
        warnings |-> collected.warnings,
        calls |-> Append(collected.calls, "format_context_from_files")]

\* files_count of the multi-set branch: sum(len(get_context_set_files(s))
\* for s in set_names if s in load_context_sets(config_path)), with the calls
\* the generator makes
RECURSIVE CountLoop(_, _, _)
CountLoop(set_names, sets, acc) ==
    IF set_names = <<>> THEN acc
    ELSE LET s == Head(set_names) IN
         CountLoop(Tail(set_names), sets,
             IF s \in DOMAIN load_context_sets(sets)
             THEN LET r == get_context_set_files(s, sets) IN
                  [count |-> acc.count + Len(r.files),
                   warnings |-> acc.warnings \o r.warnings,
                   calls |-> acc.calls \o <<"load_context_sets", "get_context_set_files">>]
             ELSE [acc EXCEPT !.calls = Append(@, "load_context_sets")])

\* os.path.relpath(file_path), in characters
RelPath(path) ==
    CASE path = 1 -> <<"f", "1">>
      [] path = 2 -> <<"f", "2">>
      [] path = 3 -> <<"f", "4">>
      [] OTHER -> <<"s", "/", "f", "3">>

\* file_section = f"{file_header}{content}\n\n" with
\* file_header = f"# {rel_path}\n\n", in characters
FileSection(section, file_text) ==
    <<"#", " ">> \o RelPath(section.header) \o <<"\n", "\n">>
        \o file_text[section.content] \o <<"\n", "\n">>

\* "\n".join(parts)
RECURSIVE JoinNewline(_)
JoinNewline(parts) ==
    IF parts = <<>> THEN <<>>
    ELSE IF Len(parts) = 1 THEN parts[1]
    ELSE parts[1] \o <<"\n">> \o JoinNewline(Tail(parts))

\* the string format_context_from_files returns for the sections of ctx
ContextText(ctx, file_text) ==
    JoinNewline([i \in DOMAIN ctx |-> FileSection(ctx[i], file_text)])

\* ".*?\n\n" tried from position k: where the match ends, 0 for no match;
\* "." takes one more character, never a newline, only when "\n\n" is not there
RECURSIVE LazyToBlankLine(_, _)
LazyToBlankLine(s, k) ==
    IF k + 1 <= Len(s) /\ s[k] = "\n" /\ s[k + 1] = "\n" THEN k + 1
    ELSE IF k <= Len(s) /\ s[k] # "\n" THEN LazyToBlankLine(s, k + 1)
    ELSE 0

\* "# .*?\n\n" tried at position i: where the match ends, 0 for no match
HeaderMatch(s, i) ==
    IF i + 1 <= Len(s) /\ s[i] = "#" /\ s[i + 1] = " "
    THEN LazyToBlankLine(s, i + 2)
    ELSE 0

\* re.sub(r"# .*?\n\n", "", context) from position i on: every match, left
\* to right, left out
RECURSIVE SubHeaders(_, _, _)
SubHeaders(s, i, out) ==
    IF i > Len(s) THEN out
    ELSE IF HeaderMatch(s, i) # 0 THEN SubHeaders(s, HeaderMatch(s, i) + 1, out)
    ELSE SubHeaders(s, i + 1, Append(out, s[i]))

\* the fixed parts of the two prompts
OpeningWithNames == <<"Below is the context from my project files:", "\n", "\n">>
OpeningWithout == <<"Below is the context from my project:", "\n", "\n">>
Closing(query) ==
    <<"\n", "\n", "My question is: ", query, "\n", "\n",
      "Please respond to my question based on the provided context.">>

\* create_prompt(context, query, include_filenames): the context, or the
\* context with the matches of the header pattern left out, between the
\* opening and the question
create_prompt(ctx, query, include_filenames) ==
    IF include_filenames
    THEN OpeningWithNames \o ctx \o Closing(query)
    ELSE OpeningWithout \o SubHeaders(ctx, 1, <<>>) \o Closing(query)

----------------------------------------------------------------------------
(* query.py: the set names of a request *)

\* set_name.split(",")
RECURSIVE Split(_)
Split(s) ==
    IF \A i \in DOMAIN s : s[i] # ","
    THEN <<s>>
    ELSE LET i == CHOOSE k \in DOMAIN s :
                      s[k] = "," /\ \A j \in 1..(k - 1) : s[j] # ","
         IN <<SubSeq(s, 1, i - 1)>> \o Split(SubSeq(s, i + 1, Len(s)))

\* s.strip(): the white space at both ends removed
RECURSIVE Strip(_)
Strip(s) ==
    IF s = <<>> THEN s
    ELSE IF Head(s) = " " THEN Strip(Tail(s))
    ELSE IF s[Len(s)] = " " THEN Strip(SubSeq(s, 1, Len(s) - 1))
    ELSE s

\* the string a sequence of characters spells
RECURSIVE Str(_)
Str(s) == IF s = <<>> THEN "" ELSE Head(s) \o Str(Tail(s))

\* set_names = [s.strip() for s in set_name.split(",")]
SetNames(s) == LET parts == Split(s) IN [i \in DOMAIN parts |-> Str(Strip(parts[i]))]

\* console.input(...).lower()
Lower(typed) == IF typed = "Y" THEN "y" ELSE typed

\* the guard 'if proceed != "y"' (DeclinedNever: the guard left out)
DeclinedNever(proceed) == FALSE
Declined(proceed) == proceed # "y"

\* the guard '"Models" not in config or model_name not in config["Models"]'
\* (ModelMissingNever: the guard left out)
ModelMissingNever(cfg, model_name) == FALSE
ModelMissing(cfg, model_name) == ~cfg.has_models \/ model_name \notin cfg.models

----------------------------------------------------------------------------
(* providers: get_provider and validate_config *)

\* no provider: get_provider returned None, or was not called yet
NoProvider == [kind |-> "none", model |-> "", api_key |-> "", client |-> FALSE]

\* config.get("provider", "").lower()
LowerProvider(name) == IF name = "OpenAI" THEN "openai" ELSE name

\* the constructors: the model (its default when the entry has none), the
\* key, and a client if the package is there, the key is set and the client's
\* constructor does not raise
OpenAIProvider(model_config, client_ok) ==
    [kind |-> "openai",
     model |-> IF model_config.model = "absent" THEN "gpt-4" ELSE model_config.model,
     api_key |-> model_config.api_key,
     client |-> OPENAI_AVAILABLE /\ model_config.api_key # "" /\ client_ok]

AnthropicProvider(model_config, client_ok) ==
    [kind |-> "anthropic",
     model |-> IF model_config.model = "absent" THEN "claude-3-opus-20240229"
               ELSE model_config.model,
     api_key |-> model_config.api_key,
     client |-> ANTHROPIC_AVAILABLE /\ model_config.api_key # "" /\ client_ok]

GeminiProvider(model_config, client_ok) ==
    [kind |-> "gemini",
     model |-> IF model_config.model = "absent" THEN "gemini-2.0-flash"
               ELSE model_config.model,
     api_key |-> model_config.api_key,
     client |-> OPENAI_AVAILABLE /\ model_config.api_key # "" /\ client_ok]

\* get_provider with the gemini branch not looking at OPENAI_AVAILABLE
get_provider_gemini_unchecked(model_config, client_ok) ==
    LET provider_name == LowerProvider(model_config.provider) IN
    IF provider_name = "openai"
    THEN IF ~OPENAI_AVAILABLE THEN NoProvider ELSE OpenAIProvider(model_config, client_ok)
    ELSE IF provider_name = "anthropic"
    THEN IF ~ANTHROPIC_AVAILABLE THEN NoProvider
         ELSE AnthropicProvider(model_config, client_ok)
    ELSE IF provider_name = "gemini"
    THEN GeminiProvider(model_config, client_ok)
    ELSE NoProvider

\* get_provider(name, config)
get_provider(model_config, client_ok) ==
    LET provider_name == LowerProvider(model_config.provider) IN
    IF provider_name = "openai"
    THEN IF ~OPENAI_AVAILABLE THEN NoProvider ELSE OpenAIProvider(model_config, client_ok)
    ELSE IF provider_name = "anthropic"
    THEN IF ~ANTHROPIC_AVAILABLE THEN NoProvider
         ELSE AnthropicProvider(model_config, client_ok)
    ELSE IF provider_name = "gemini"
    THEN IF ~OPENAI_AVAILABLE THEN NoProvider ELSE GeminiProvider(model_config, client_ok)
    ELSE NoProvider

\* validate_config of the three providers
validate_config(p) ==
    CASE p.kind = "openai" -> OPENAI_AVAILABLE /\ p.api_key # "" /\ p.client
      [] p.kind = "anthropic" ->
            ANTHROPIC_AVAILABLE /\ p.api_key # "" /\ p.model # "" /\ p.client
      [] p.kind = "gemini" ->
            OPENAI_AVAILABLE /\ p.api_key # "" /\ p.model # "" /\ p.client
      [] OTHER -> FALSE

\* no Models entry read, and get_completion not called
NoEntry == [provider |-> "", api_key |-> "", model |-> "absent"]
NotCalled == [raised |-> FALSE, text |-> "", contacted |-> FALSE]

\* what the backend does with a request: it answers with a text, with an
\* item whose text is empty, with no item at all (no choice, no content
\* block), or the call raises
BackendReplies == {"text", "empty", "nothing", "raises"}

\* the body of the "try" of get_completion: the create call and the text
\* taken out of the response; response.choices[0] of an OpenAI or Gemini
\* response without choices is an IndexError, an Anthropic response without
\* content gives ""
CompletionBody(p, reply) ==
    CASE reply = "raises" -> [raised |-> TRUE, text |-> ""]
      [] reply = "nothing" ->
            IF p.kind = "anthropic" THEN [raised |-> FALSE, text |-> ""]
            ELSE [raised |-> TRUE, text |-> ""]
      [] reply = "empty" -> [raised |-> FALSE, text |-> ""]
      [] OTHER -> [raised |-> FALSE, text |-> "text"]

\* get_completion without its "except Exception"
get_completion_unguarded(p, reply) ==
    IF ~validate_config(p)
    THEN [raised |-> FALSE, text |-> "Error: not configured", contacted |-> FALSE]
    ELSE LET body == CompletionBody(p, reply) IN
         [raised |-> body.raised, text |-> body.text, contacted |-> TRUE]

\* get_completion of the three providers: the error string of a provider
\* that is not valid, else the text of the response, or "Error: ..." with
\* the message of whatever the body raised
get_completion(p, reply) ==
    IF ~validate_config(p)
    THEN [raised |-> FALSE, text |-> "Error: not configured", contacted |-> FALSE]
    ELSE LET body == CompletionBody(p, reply) IN
         IF body.raised
         THEN [raised |-> FALSE, text |-> "Error: backend", contacted |-> TRUE]
         ELSE [raised |-> FALSE, text |-> body.text, contacted |-> TRUE]

\* the entries a Models section may hold for the requested model
ModelConfigs ==
    [provider : {"openai", "OpenAI", "anthropic", "gemini", "test"},
     api_key : {"", "key"},
     model : {"absent", "", "custom"}]

----------------------------------------------------------------------------
(* utils/tokens.py: count_tokens_simple *)

\* the characters \w matches, and those \s matches
WordChars ==
    {"a", "b", "c", "d", "e", "f", "g", "h", "i", "j", "k", "l", "m", "n", "o", "p",
     "q", "r", "s", "t", "u", "v", "w", "x", "y", "z", "0", "1", "2", "3", "4", "5",
     "6", "7", "8", "9", "_"}
SpaceChars == {" ", "\n", "\t"}

\* there is a character at position i of s and \w matches it
IsWordAt(s, i) == i \in DOMAIN s /\ s[i] \in WordChars

\* \b before position i: a word character on one side only
AtBoundary(s, i) == IsWordAt(s, i - 1) # IsWordAt(s, i)

\* the pattern \w|[^\w\s] in place of TOKEN_PATTERN: a word character alone
MatchWordOne(s, i) == IF IsWordAt(s, i) THEN i ELSE 0

\* \b\w+\b tried at position i: where the match ends, 0 for no match; \w+
\* takes all it can and gives back until \b holds
MatchWord(s, i) ==
    IF ~(AtBoundary(s, i) /\ IsWordAt(s, i)) THEN 0
    ELSE LET ends == {k \in i..Len(s) :
                         /\ \A j \in i..k : IsWordAt(s, j)
                         /\ AtBoundary(s, k + 1)}
         IN IF ends = {} THEN 0 ELSE CHOOSE k \in ends : \A m \in ends : m <= k

\* [^\w\s] tried at position i
MatchOther(s, i) == i \in DOMAIN s /\ s[i] \notin WordChars \cup SpaceChars

\* TOKEN_PATTERN.findall(text) from position i on: the matches, left to
\* right, none overlapping; the first alternative is tried first
RECURSIVE FindAll(_, _, _)
FindAll(s, i, found) ==
    IF i > Len(s) THEN found
    ELSE IF MatchWord(s, i) # 0
    THEN FindAll(s, MatchWord(s, i) + 1, Append(found, SubSeq(s, i, MatchWord(s, i))))
    ELSE IF MatchOther(s, i)
    THEN FindAll(s, i + 1, Append(found, <<s[i]>>))
    ELSE FindAll(s, i + 1, found)

\* count_tokens_simple(text)
count_tokens_simple(s) == IF s = <<>> THEN 0 ELSE Len(FindAll(s, 1, <<>>))

----------------------------------------------------------------------------
(* utils/tokens.py: format_token_count *)

Digit(d) ==
    CASE d = 0 -> "0" [] d = 1 -> "1" [] d = 2 -> "2" [] d = 3 -> "3" [] d = 4 -> "4"
      [] d = 5 -> "5" [] d = 6 -> "6" [] d = 7 -> "7" [] d = 8 -> "8" [] OTHER -> "9"

\* str(n) of a count
RECURSIVE DecStr(_)
DecStr(n) == IF n < 10 THEN Digit(n) ELSE DecStr(n \div 10) \o Digit(n % 10)

\* the value f"{num/den:.1f}" may show, in tenths: the nearest tenth; half
\* way between two tenths the float decides, the even one when num/den is a
\* float exactly (a multiple of a quarter), one or the other (by which side
\* of the half the nearest float falls) when it is not
OneDecimal(num, den) ==
    LET q == (num * 10) \div den
        r == (num * 10) % den
    IN IF 2 * r < den THEN {q}
       ELSE IF 2 * r > den THEN {q + 1}
       ELSE IF (2 * q + 1) % 5 = 0 THEN {IF q % 2 = 0 THEN q ELSE q + 1}
       ELSE {q, q + 1}

\* the string of a number of tenths and its unit
Fixed(t, unit) ==
    [text |-> DecStr(t \div 10) \o "." \o Digit(t % 10) \o unit, unit |-> unit, tenths |-> t]

\* format_token_count with "count <= 1000" for its first test
format_token_count_late(count) ==
    IF count <= 1000 THEN {[text |-> DecStr(count), unit |-> "", tenths |-> 10 * count]}
    ELSE IF count < 1000000 THEN {Fixed(t, "K") : t \in OneDecimal(count, 1000)}
    ELSE {Fixed(t, "M") : t \in OneDecimal(count, 1000000)}

\* format_token_count(count): what it may return
format_token_count(count) ==
    IF count < 1000 THEN {[text |-> DecStr(count), unit |-> "", tenths |-> 10 * count]}
    ELSE IF count < 1000000 THEN {Fixed(t, "K") : t \in OneDecimal(count, 1000)}
    ELSE {Fixed(t, "M") : t \in OneDecimal(count, 1000000)}

----------------------------------------------------------------------------
(* Resolution: get_matching_files called on any set with any registry *)

Patterns == {"*.md", "**/*", "*.rs"}
IncludeNames == {"a", "b", "s"}

\* the sets a .context file defines beside the one under resolution
SetsConfigs ==
    {[n \in {"a", "b"} |-> IF n = "a" THEN ca ELSE cb] :
        ca \in {[match |-> m, include |-> i] :
                    m \in {<<>>, <<"*.md">>, <<"**/*">>}, i \in {<<>>, <<"b">>}},
        cb \in {[match |-> m, include |-> i] :
                    m \in {<<"*.txt">>, <<"subfolder/*.md">>, <<"*.md">>},
                    i \in {<<>>, <<"a">>}}}

NotResolved == [files |-> <<>>, warnings |-> <<>>, calls |-> <<>>, depth |-> 0]

\* nothing of a query or of a provider has happened yet
NothingDone ==
    /\ set_name = <<>>
    /\ stream = FALSE
    /\ failure = ""
    /\ calls = <<>>
    /\ warnings = <<>>
    /\ answer = "not asked"
    /\ config = [loaded |-> FALSE, has_models |-> FALSE, models |-> {}]
    /\ files_count = 0
    /\ context_files = <<>>
    /\ context = <<>>
    /\ total_tokens = 0
    /\ provider = NoProvider
    /\ validated = "not called"
    /\ prompt = <<>>
    /\ thinking = FALSE
    /\ gen = "none"
    /\ pulls = 0
    /\ response_text = <<>>
    /\ backend_reply = "none"
    /\ completion = NotCalled

\* no text counted, no count formatted, no prompt built
NoText ==
    /\ text = <<>>
    /\ tokens = 0
    /\ shown = [text |-> "", unit |-> "", tenths |-> 0]
    /\ contents = <<>>
    /\ context_text = <<>>
    /\ prompts = [with |-> <<>>, without |-> <<>>]

\* execute_query is not running
NoQuery ==
    /\ pc = "Idle"
    /\ provider_config = NoEntry
    /\ NothingDone

InitResolve ==
    /\ sets_config \in SetsConfigs
    /\ \E name \in {"a", "s"}, m \in BSeq(Patterns, MaxPatterns),
          i \in BSeq(IncludeNames, MaxIncludes) :
          context_set = ContextSet(name, [match |-> m, include |-> i])
    /\ all_sets \in {NoSets, SomeSets(load_context_sets(sets_config))}
    /\ resolved = FALSE
    /\ matching = NotResolved
    /\ unreadable = {}
    /\ OPENAI_AVAILABLE = TRUE
    /\ ANTHROPIC_AVAILABLE = TRUE
    /\ NoQuery
    /\ NoText

\* context_set.get_matching_files(all_sets)
GetMatchingFilesCall ==
    /\ ~resolved
    /\ resolved' = TRUE
    /\ matching' = get_matching_files(context_set, all_sets)
    /\ UNCHANGED <<context_set, all_sets, envVars, queryVars, textVars>>

NextResolve == GetMatchingFilesCall

SpecResolve == InitResolve /\ [][NextResolve]_vars

----------------------------------------------------------------------------
(* The registry: get_context_set_files called with any name *)

\* the names asked for: sets of the registry and names that are not
AskedNames == {"a", "b", "s", "x"}

InitRegistry ==
    /\ sets_config \in SetsConfigs
    /\ context_set = ContextSet("a", sets_config["a"])
    /\ all_sets = NoSets
    /\ resolved = FALSE
    /\ matching = NotResolved
    /\ unreadable = {}
    /\ OPENAI_AVAILABLE = TRUE
    /\ ANTHROPIC_AVAILABLE = TRUE
    /\ NoQuery
    /\ NoText

\* get_context_set_files(name, config_path): the list returned, or KeyError
GetContextSetFilesCall ==
    /\ pc = "Idle"
    /\ \E name \in AskedNames :
          LET r == get_context_set_files(name, sets_config) IN
          /\ set_name' = <<name>>
          /\ calls' = Append(calls, "get_context_set_files")
          /\ context_files' = r.files
          /\ warnings' = r.warnings
          /\ failure' = IF r.raised THEN "KeyError" ELSE ""
          /\ pc' = IF r.raised THEN "Raised" ELSE "Returned"
    /\ UNCHANGED <<resolveVars, envVars, stream, answer, config, files_count, context,
                   total_tokens, provider, validated, prompt, streamVars,
                   provider_config, completionVars, textVars>>

NextRegistry == GetContextSetFilesCall

SpecRegistry == InitRegistry /\ [][NextRegistry]_vars

----------------------------------------------------------------------------
(* query.py: execute_query, step by step *)

\* the model_name argument
RequestedModel == "m"

\* what load_config may return: no Models section, one without the requested
\* model, one with it
Configs ==
    {[loaded |-> TRUE, has_models |-> FALSE, models |-> {}],
     [loaded |-> TRUE, has_models |-> TRUE, models |-> {}],
     [loaded |-> TRUE, has_models |-> TRUE, models |-> {"other"}],
     [loaded |-> TRUE, has_models |-> TRUE, models |-> {"m", "other"}]}

\* the Sets section of the .context file of a query: two sets that share
\* files and a set that matches none
QuerySets ==
    [n \in {"a", "b", "e"} |->
        CASE n = "a" -> [match |-> <<"*.md">>, include |-> <<>>]
          [] n = "b" -> [match |-> <<"**/*">>, include |-> <<"a">>]
          [] OTHER -> [match |-> <<"*.rs">>, include |-> <<>>]]

\* the set names a request may hold ("x" is no set), bare or, for one of
\* them, between spaces
RequestNames == {"a", "b", "e", "x"}
NameParts == {<<n>> : n \in RequestNames} \cup {<<" ", "a", " ">>}

RECURSIVE JoinComma(_)
JoinComma(parts) ==
    IF Len(parts) = 1 THEN parts[1]
    ELSE parts[1] \o <<",">> \o JoinComma(Tail(parts))

Requests == {JoinComma(parts) : parts \in BSeq(NameParts, MaxSetNames) \ {<<>>}}

\* what the user may type at the prompt
Answers == {"y", "Y", "n", ""}

Init ==
    /\ sets_config = QuerySets
    /\ unreadable = {3}
    /\ OPENAI_AVAILABLE \in BOOLEAN
    /\ ANTHROPIC_AVAILABLE \in BOOLEAN
    /\ context_set = ContextSet("a", QuerySets["a"])
    /\ all_sets = NoSets
    /\ resolved = FALSE
    /\ matching = NotResolved
    /\ set_name \in Requests
    /\ stream \in BOOLEAN
    /\ pc = "ConfigLoading"
    /\ failure = ""
    /\ calls = <<>>
    /\ warnings = <<>>
    /\ answer = "not asked"
    /\ config = [loaded |-> FALSE, has_models |-> FALSE, models |-> {}]
    /\ files_count = 0
    /\ context_files = <<>>
    /\ context = <<>>
    /\ total_tokens = 0
    /\ provider = NoProvider
    /\ validated = "not called"
    /\ prompt = <<>>
    /\ thinking = FALSE
    /\ gen = "none"
    /\ pulls = 0
    /\ response_text = <<>>
    /\ provider_config = NoEntry
    /\ backend_reply = "none"
    /\ completion = NotCalled
    /\ NoText

\* an error message and "return", or the handler of "except Exception"
Fail(reason) == pc' = "Failed" /\ failure' = reason

GoTo(step) == pc' = step /\ failure' = failure

\* config = load_config(config_path)
ConfigLoading ==
    /\ pc = "ConfigLoading"
    /\ calls' = Append(calls, "load_config")
    /\ \/ \E c \in Configs : config' = c /\ GoTo("ModelValidation")
       \/ config' = config /\ Fail("exception")
    /\ UNCHANGED <<fixedVars, provider_config, completionVars,
                   contextVars, provider, validated, prompt, streamVars>>

\* "Validate the model exists" (ModelValidationSkipping: the provider
\* acquired right after it, set resolution passed over)
ModelValidationSkipping ==
    /\ pc = "ModelValidation"
    /\ IF ModelMissing(config, RequestedModel)
       THEN Fail("model not found")
       ELSE GoTo("ProviderAcquisition")
    /\ UNCHANGED <<fixedVars, provider_config, completionVars,
                   calls, config, contextVars, provider, validated, prompt,
                   streamVars>>

ModelValidation ==
    /\ pc = "ModelValidation"
    /\ IF ModelMissing(config, RequestedModel)
       THEN Fail("model not found")
       ELSE GoTo("SetResolution")
    /\ UNCHANGED <<fixedVars, provider_config, completionVars,
                   calls, config, contextVars, provider, validated, prompt,
                   streamVars>>

\* the branch "Multiple sets specified" with the question of the single-set
\* branch asked when no file was found
MultiSetResolutionConfirming(set_names) ==
    LET built == format_context_from_multiple_sets(set_names, sets_config, unreadable)
        counted == CountLoop(set_names, sets_config,
                             [count |-> 0, warnings |-> <<>>, calls |-> <<>>])
    IN /\ context' = built.context
       /\ total_tokens' = built.total_tokens
       /\ context_files' = built.files
       /\ files_count' = counted.count
       /\ warnings' = warnings \o built.warnings \o counted.warnings
       /\ calls' = calls \o built.calls \o counted.calls
       /\ answer' = answer
       /\ IF built.files = <<>> THEN GoTo("Confirming") ELSE GoTo("ProviderAcquisition")

\* the branch "Multiple sets specified"
MultiSetResolution(set_names) ==
    LET built == format_context_from_multiple_sets(set_names, sets_config, unreadable)
        counted == CountLoop(set_names, sets_config,
                             [count |-> 0, warnings |-> <<>>, calls |-> <<>>])
    IN /\ context' = built.context
       /\ total_tokens' = built.total_tokens
       /\ context_files' = built.files
       /\ files_count' = counted.count
       /\ warnings' = warnings \o built.warnings \o counted.warnings
       /\ calls' = calls \o built.calls \o counted.calls
       /\ answer' = answer
       /\ GoTo("ProviderAcquisition")

\* the branch "Single set specified", up to the confirmation prompt
SingleSetResolution ==
    LET r == get_context_set_files(Str(set_name), sets_config) IN
    IF r.raised
    THEN /\ calls' = Append(calls, "get_context_set_files")
         /\ Fail("set not found")
         /\ UNCHANGED contextVars
    ELSE IF r.files = <<>>
    THEN /\ calls' = Append(calls, "get_context_set_files")
         /\ warnings' = warnings \o r.warnings
         /\ files_count' = 0
         /\ GoTo("Confirming")
         /\ UNCHANGED <<answer, context_files, context, total_tokens>>
    ELSE LET formatted == format_context_from_files(r.files, unreadable) IN
         /\ calls' = calls \o <<"get_context_set_files", "format_context_from_files">>
         /\ warnings' = warnings \o r.warnings
         /\ files_count' = Len(r.files)
         /\ answer' = answer
         /\ context_files' = r.files
         /\ context' = formatted.context
         /\ total_tokens' = formatted.total_tokens
         /\ GoTo("ProviderAcquisition")

\* "Check if we have multiple sets (comma-separated)"
SetResolution ==
    /\ pc = "SetResolution"
    /\ IF Len(SetNames(set_name)) > 1
       THEN MultiSetResolution(SetNames(set_name))
       ELSE SingleSetResolution
    /\ UNCHANGED <<fixedVars, provider_config, completionVars,
                   config, provider, validated, prompt, streamVars>>

\* the question put a second time after an empty answer
ConfirmingOnceMore ==
    /\ pc = "Confirming"
    /\ calls' = Append(calls, "console.input")
    /\ \E typed \in Answers :
          /\ answer' = typed
          /\ IF typed = "" /\ answer = "not asked"
             THEN GoTo("Confirming")
             ELSE IF Declined(Lower(typed))
             THEN Fail("cancelled")
             ELSE GoTo("ProviderAcquisition")
    /\ context' = <<>>
    /\ total_tokens' = 0
    /\ UNCHANGED <<fixedVars, provider_config, completionVars,
                   config, warnings, files_count, context_files, provider,
                   validated, prompt, streamVars>>

\* "Do you want to proceed with an empty context? [y/N]"
Confirming ==
    /\ pc = "Confirming"
    /\ calls' = Append(calls, "console.input")
    /\ \E typed \in Answers :
          /\ answer' = typed
          /\ IF Declined(Lower(typed))
             THEN Fail("cancelled")
             ELSE GoTo("ProviderAcquisition")
    /\ context' = <<>>
    /\ total_tokens' = 0
    /\ UNCHANGED <<fixedVars, provider_config, completionVars,
                   config, warnings, files_count, context_files, provider,
                   validated, prompt, streamVars>>

\* provider = get_provider(model_name, model_config); model_config is the
\* entry of the requested model, read at line 150 and first looked at here,
\* and client_ok tells whether the backend client could be constructed
ProviderAcquisition ==
    /\ pc = "ProviderAcquisition"
    /\ calls' = Append(calls, "get_provider")
    /\ \E model_config \in ModelConfigs, client_ok \in BOOLEAN :
          /\ provider_config' = model_config
          /\ provider' = get_provider(model_config, client_ok)
    /\ IF provider' = NoProvider
       THEN Fail("no provider")
       ELSE GoTo("ProviderValidation")
    /\ UNCHANGED <<fixedVars, completionVars, config, contextVars, validated, prompt,
                   streamVars>>

\* "if not provider.validate_config(): return" (ProviderValidationIgnored:
\* the result not looked at)
ProviderValidationIgnored ==
    /\ pc = "ProviderValidation"
    /\ calls' = Append(calls, "validate_config")
    /\ validated' = IF validate_config(provider) THEN "true" ELSE "false"
    /\ GoTo("PromptBuilding")
    /\ UNCHANGED <<fixedVars, provider_config, completionVars,
                   config, contextVars, provider, prompt, streamVars>>

ProviderValidation ==
    /\ pc = "ProviderValidation"
    /\ calls' = Append(calls, "validate_config")
    /\ validated' = IF validate_config(provider) THEN "true" ELSE "false"
    /\ IF validate_config(provider)
       THEN GoTo("PromptBuilding")
       ELSE Fail("provider not valid")
    /\ UNCHANGED <<fixedVars, provider_config, completionVars,
                   config, contextVars, provider, prompt, streamVars>>

\* prompt = create_prompt(context, query, include_filenames) with the file
\* names kept (the default), and the "Context:", "Model:" and "Query:" lines
PromptBuilding ==
    /\ pc = "PromptBuilding"
    /\ calls' = Append(calls, "create_prompt")
    /\ prompt' = create_prompt(context, "query", TRUE)
    /\ GoTo("Completing")
    /\ UNCHANGED <<fixedVars, provider_config, completionVars,
                   config, contextVars, provider, validated, streamVars>>

\* "Non-streaming mode" asking again after an error string in place of
\* showing it
CompleteRetrying ==
    /\ pc = "Completing"
    /\ ~stream
    /\ calls' = Append(calls, "get_completion")
    /\ \E reply \in BackendReplies :
          /\ backend_reply' = reply
          /\ completion' = get_completion(provider, reply)
    /\ IF completion'.text = "Error: backend"
       THEN GoTo("Completing") /\ response_text' = response_text
       ELSE GoTo("Done") /\ response_text' = <<completion'.text>>
    /\ UNCHANGED <<fixedVars, provider_config, config, contextVars, provider, validated,
                   prompt, thinking, gen, pulls>>

\* "Non-streaming mode": get_completion under the status, then the response
Complete ==
    /\ pc = "Completing"
    /\ ~stream
    /\ calls' = Append(calls, "get_completion")
    /\ \E reply \in BackendReplies :
          /\ backend_reply' = reply
          /\ completion' = get_completion(provider, reply)
    /\ IF completion'.raised
       THEN Fail("exception") /\ response_text' = response_text
       ELSE GoTo("Done") /\ response_text' = <<completion'.text>>
    /\ UNCHANGED <<fixedVars, provider_config, config, contextVars, provider, validated,
                   prompt, thinking, gen, pulls>>

\* the status comes up and get_completion_stream hands out its generator
StreamStart ==
    /\ pc = "Completing"
    /\ stream
    /\ calls' = Append(calls, "get_completion_stream")
    /\ thinking' = TRUE
    /\ gen' = "unstarted"
    /\ GoTo("FirstChunk")
    /\ UNCHANGED <<fixedVars, provider_config, completionVars,
                   config, contextVars, provider, validated, prompt,
                   pulls, response_text>>

\* the text of the i-th chunk the backend streams
Chunk(i) == "text " \o DecStr(i)

\* the generator without its "except Exception": what the backend raises
\* comes out of next()
GenOutcomesUnguarded(g, p, received) ==
    IF g = "unstarted" /\ ~validate_config(p)
    THEN {[chunk |-> "Error: not configured", gen |-> "stopping"]}
    ELSE IF g \in {"unstarted", "running"}
    THEN (IF received < MaxChunks
          THEN {[chunk |-> Chunk(received + 1), gen |-> "running"]}
          ELSE {})
         \cup {[chunk |-> "Exception", gen |-> "exhausted"],
               [chunk |-> "StopIteration", gen |-> "exhausted"]}
    ELSE {[chunk |-> "StopIteration", gen |-> "exhausted"]}

\* what next() on the generator of get_completion_stream gives: a chunk, or
\* "StopIteration"; the backend may stream a chunk, end, or raise, and the
\* generator yields one error chunk for a provider that is not valid or a
\* backend that raised, and returns at the pull after it
GenOutcomes(g, p, received) ==
    IF g = "unstarted" /\ ~validate_config(p)
    THEN {[chunk |-> "Error: not configured", gen |-> "stopping"]}
    ELSE IF g \in {"unstarted", "running"}
    THEN (IF received < MaxChunks
          THEN {[chunk |-> Chunk(received + 1), gen |-> "running"]}
          ELSE {})
         \cup {[chunk |-> "Error: backend", gen |-> "stopping"],
               [chunk |-> "StopIteration", gen |-> "exhausted"]}
    ELSE {[chunk |-> "StopIteration", gen |-> "exhausted"]}

\* the first pull with the status left up: the response shown under it
FirstChunkUnderStatus ==
    /\ pc = "FirstChunk"
    /\ calls' = Append(calls, "next")
    /\ pulls' = pulls + 1
    /\ \E o \in GenOutcomes(gen, provider, Len(response_text)) :
          /\ gen' = o.gen
          /\ response_text' = IF o.chunk = "StopIteration" THEN <<>> ELSE <<o.chunk>>
    /\ thinking' = thinking
    /\ GoTo("Streaming")
    /\ UNCHANGED <<fixedVars, provider_config, completionVars,
                   config, contextVars, provider, validated, prompt>>

\* first_chunk = next(stream_iterator) under the status, "" on StopIteration;
\* then the status goes down and the first text is shown
FirstChunk ==
    /\ pc = "FirstChunk"
    /\ calls' = Append(calls, "next")
    /\ pulls' = pulls + 1
    /\ \E o \in GenOutcomes(gen, provider, Len(response_text)) :
          /\ gen' = o.gen
          /\ response_text' = IF o.chunk = "StopIteration" THEN <<>> ELSE <<o.chunk>>
    /\ thinking' = FALSE
    /\ GoTo("Streaming")
    /\ UNCHANGED <<fixedVars, provider_config, completionVars,
                   config, contextVars, provider, validated, prompt>>

\* the loop with the chunk put before the text shown so far
StreamingPrepending ==
    /\ pc = "Streaming"
    /\ calls' = Append(calls, "next")
    /\ pulls' = pulls + 1
    /\ \E o \in GenOutcomes(gen, provider, Len(response_text)) :
          /\ gen' = o.gen
          /\ IF o.chunk = "StopIteration"
             THEN response_text' = response_text /\ GoTo("Done")
             ELSE response_text' = <<o.chunk>> \o response_text /\ GoTo("Streaming")
    /\ UNCHANGED <<fixedVars, provider_config, completionVars,
                   config, contextVars, provider, validated, prompt, thinking>>

\* "for chunk in stream_iterator": one more chunk shown, or the end
Streaming ==
    /\ pc = "Streaming"
    /\ calls' = Append(calls, "next")
    /\ pulls' = pulls + 1
    /\ \E o \in GenOutcomes(gen, provider, Len(response_text)) :
          /\ gen' = o.gen
          /\ IF o.chunk = "StopIteration"
             THEN response_text' = response_text /\ GoTo("Done")
             ELSE response_text' = Append(response_text, o.chunk) /\ GoTo("Streaming")
    /\ UNCHANGED <<fixedVars, provider_config, completionVars,
                   config, contextVars, provider, validated, prompt, thinking>>

\* an exception out of the step under way with no handler around it: it
\* leaves execute_query
RaiseUncaught ==
    /\ pc \in {"ModelValidation", "SetResolution", "Confirming", "ProviderAcquisition",
               "ProviderValidation", "PromptBuilding", "Completing", "FirstChunk",
               "Streaming"}
    /\ pc' = "Raised"
    /\ failure' = failure
    /\ thinking' = FALSE
    /\ UNCHANGED <<fixedVars, provider_config, completionVars,
                   calls, config, contextVars, provider, validated, prompt,
                   gen, pulls, response_text>>

\* an exception out of the step under way, caught by "except Exception"
Raise ==
    /\ pc \in {"ModelValidation", "SetResolution", "Confirming", "ProviderAcquisition",
               "ProviderValidation", "PromptBuilding", "Completing", "FirstChunk",
               "Streaming"}
    /\ Fail("exception")
    /\ thinking' = FALSE
    /\ UNCHANGED <<fixedVars, provider_config, completionVars,
                   calls, config, contextVars, provider, validated, prompt,
                   gen, pulls, response_text>>

\* (Raise is listed first: it is the step TLC finds enabled at once when it
\* evaluates ENABLED Next)
Next ==
    \/ Raise
    \/ ConfigLoading
    \/ ModelValidation
    \/ SetResolution
    \/ Confirming
    \/ ProviderAcquisition
    \/ ProviderValidation
    \/ PromptBuilding
    \/ Complete
    \/ StreamStart
    \/ FirstChunk
    \/ Streaming

Spec == Init /\ [][Next]_vars

\* execute_query runs on its own thread of control to its end: a step that
\* can be taken is taken (console.input returns an answer, next() returns or
\* raises, and the backend streams MaxChunks chunks at most)
SpecFair == Spec /\ WF_vars(Next)

----------------------------------------------------------------------------
(* The providers on their own: an instance from get_provider or from a
   constructor, then validate_config, get_completion or get_completion_stream *)

InitProvider ==
    /\ sets_config = QuerySets
    /\ context_set = ContextSet("a", QuerySets["a"])
    /\ all_sets = NoSets
    /\ resolved = FALSE
    /\ matching = NotResolved
    /\ unreadable = {}
    /\ OPENAI_AVAILABLE \in BOOLEAN
    /\ ANTHROPIC_AVAILABLE \in BOOLEAN
    /\ provider_config \in ModelConfigs
    /\ pc = "Configured"
    /\ NothingDone
    /\ NoText

providerIdle ==
    <<fixedVars, provider_config, warnings, answer, config, files_count, context_files,
      context, total_tokens, prompt, thinking, failure>>

\* get_provider(model_name, provider_config)
GetProviderCall ==
    /\ pc = "Configured"
    /\ calls' = Append(calls, "get_provider")
    /\ \E client_ok \in BOOLEAN : provider' = get_provider(provider_config, client_ok)
    /\ pc' = IF provider' = NoProvider THEN "NoInstance" ELSE "Instance"
    /\ UNCHANGED <<providerIdle, validated, gen, pulls, response_text, completionVars>>

\* OpenAIProvider(config), AnthropicProvider(config) or GeminiProvider(config)
ConstructorCall ==
    /\ pc = "Configured"
    /\ calls' = Append(calls, "__init__")
    /\ \E client_ok \in BOOLEAN :
          provider' \in {OpenAIProvider(provider_config, client_ok),
                         AnthropicProvider(provider_config, client_ok),
                         GeminiProvider(provider_config, client_ok)}
    /\ pc' = "Instance"
    /\ UNCHANGED <<providerIdle, validated, gen, pulls, response_text, completionVars>>

\* provider.validate_config()
ValidateConfigCall ==
    /\ pc = "Instance"
    /\ validated = "not called"
    /\ calls' = Append(calls, "validate_config")
    /\ validated' = IF validate_config(provider) THEN "true" ELSE "false"
    /\ UNCHANGED <<providerIdle, pc, provider, gen, pulls, response_text, completionVars>>

\* provider.get_completion(prompt, ...)
GetCompletionCall ==
    /\ pc = "Instance"
    /\ calls' = Append(calls, "get_completion")
    /\ \E reply \in BackendReplies :
          /\ backend_reply' = reply
          /\ completion' = get_completion(provider, reply)
    /\ pc' = IF completion'.raised THEN "Raised" ELSE "Returned"
    /\ UNCHANGED <<providerIdle, provider, validated, gen, pulls, response_text>>

\* provider.get_completion_stream(prompt, ...): the generator, not started
GetCompletionStreamCall ==
    /\ pc = "Instance"
    /\ calls' = Append(calls, "get_completion_stream")
    /\ gen' = "unstarted"
    /\ pc' = "Iterating"
    /\ UNCHANGED <<providerIdle, provider, validated, pulls, response_text, completionVars>>

\* next() on the generator: a chunk taken, StopIteration, or an exception
NextCall ==
    /\ pc = "Iterating"
    /\ calls' = Append(calls, "next")
    /\ pulls' = pulls + 1
    /\ \E o \in GenOutcomes(gen, provider, Len(response_text)) :
          /\ gen' = o.gen
          /\ CASE o.chunk = "StopIteration" ->
                     response_text' = response_text /\ pc' = "Exhausted"
                [] o.chunk = "Exception" ->
                     response_text' = response_text /\ pc' = "Raised"
                [] OTHER ->
                     response_text' = Append(response_text, o.chunk) /\ pc' = "Iterating"
    /\ UNCHANGED <<providerIdle, provider, validated, completionVars>>

NextProvider ==
    \/ GetProviderCall
    \/ ConstructorCall
    \/ ValidateConfigCall
    \/ GetCompletionCall
    \/ GetCompletionStreamCall
    \/ NextCall

SpecProvider == InitProvider /\ [][NextProvider]_vars

----------------------------------------------------------------------------
(* count_tokens_simple called on any text *)

\* longest text drawn from TextChars
MaxText == 4

TextChars == {"a", "_", "7", ",", ".", " ", "\n"}

\* the texts of test_count_tokens_simple
HelloWorld == <<"h", "e", "l", "l", "o", " ", "w", "o", "r", "l", "d">>
OneTwoThree ==
    <<"o", "n", "e", ",", " ", "t", "w", "o", ",", " ", "t", "h", "r", "e", "e", ".">>

\* nothing else is going on
Quiet ==
    /\ sets_config = QuerySets
    /\ context_set = ContextSet("a", QuerySets["a"])
    /\ all_sets = NoSets
    /\ resolved = FALSE
    /\ matching = NotResolved
    /\ unreadable = {}
    /\ OPENAI_AVAILABLE = TRUE
    /\ ANTHROPIC_AVAILABLE = TRUE
    /\ NoQuery

InitTokens ==
    /\ Quiet
    /\ text \in BSeq(TextChars, MaxText) \cup {HelloWorld, OneTwoThree}
    /\ tokens = 0
    /\ shown = [text |-> "", unit |-> "", tenths |-> 0]
    /\ contents = <<>>
    /\ context_text = <<>>
    /\ prompts = [with |-> <<>>, without |-> <<>>]

\* count_tokens_simple(text); calls records that it returned
CountTokensCall ==
    /\ calls = <<>>
    /\ calls' = <<"count_tokens_simple">>
    /\ tokens' = count_tokens_simple(text)
    /\ UNCHANGED <<resolveVars, envVars, set_name, stream, pc, failure, warnings,
                   contextVars, config, provider, validated, prompt, streamVars,
                   provider_config, completionVars, text, shown, contents,
                   context_text, prompts>>

NextTokens == CountTokensCall

SpecTokens == InitTokens /\ [][NextTokens]_vars

----------------------------------------------------------------------------
(* format_token_count called on any count *)

\* how far around 0, 1000, 1500 and 1000000 the counts go
CountSpread == 50

Around(n) == {c \in (n - CountSpread)..(n + CountSpread) : c >= 0}

\* the counts formatted: those around the two thresholds and the counts of
\* test_format_token_count
Counts ==
    Around(0) \cup Around(1000) \cup Around(1500) \cup Around(1000000)
        \cup {1250, 1750, 10500, 2500000}

InitFormat ==
    /\ Quiet
    /\ text = <<>>
    /\ tokens \in Counts
    /\ shown = [text |-> "", unit |-> "", tenths |-> 0]
    /\ contents = <<>>
    /\ context_text = <<>>
    /\ prompts = [with |-> <<>>, without |-> <<>>]

\* format_token_count(tokens)
FormatTokenCountCall ==
    /\ calls = <<>>
    /\ calls' = <<"format_token_count">>
    /\ shown' \in format_token_count(tokens)
    /\ UNCHANGED <<resolveVars, envVars, set_name, stream, pc, failure, warnings,
                   contextVars, config, provider, validated, prompt, streamVars,
                   provider_config, completionVars, text, tokens, contents,
                   context_text, prompts>>

NextFormat == FormatTokenCountCall

SpecFormat == InitFormat /\ [][NextFormat]_vars

----------------------------------------------------------------------------
(* create_prompt called, with and without file names, on the context of
   format_context_from_files *)

\* longest text of the first file
MaxContent == 3

ContentChars == {"#", " ", "x", "\n"}

\* the files of the context
PromptFiles == {<<1>>, <<1, 2>>}

InitPrompt ==
    /\ Quiet
    /\ text = <<>>
    /\ tokens = 0
    /\ shown = [text |-> "", unit |-> "", tenths |-> 0]
    /\ \E first \in BSeq(ContentChars, MaxContent), second \in {<<>>, <<"x">>} :
          contents = [path \in {1, 2} |-> IF path = 1 THEN first ELSE second]
    /\ context_text = <<>>
    /\ prompts = [with |-> <<>>, without |-> <<>>]

\* context, _ = format_context_from_files(files): the sections and the
\* string they make (the token total is not looked at here)
FormatContextCall ==
    /\ pc = "Idle"
    /\ calls' = Append(calls, "format_context_from_files")
    /\ \E files \in PromptFiles :
          /\ context_files' = files
          /\ context' = format_context_from_files(files, unreadable).context
    /\ context_text' = ContextText(context', contents)
    /\ pc' = "Formatted"
    /\ UNCHANGED <<resolveVars, envVars, set_name, stream, failure, warnings, answer,
                   files_count, total_tokens, config, provider, validated, prompt,
                   streamVars, provider_config, completionVars, text, tokens, shown,
                   contents, prompts>>

\* create_prompt(context, query, True) and create_prompt(context, query, False)
CreatePromptCall ==
    /\ pc = "Formatted"
    /\ calls' = calls \o <<"create_prompt", "create_prompt">>
    /\ prompts' = [with |-> create_prompt(context_text, "query", TRUE),
                   without |-> create_prompt(context_text, "query", FALSE)]
    /\ pc' = "Built"
    /\ UNCHANGED <<resolveVars, envVars, set_name, stream, failure, contextVars, config,
                   provider, validated, prompt, streamVars, provider_config,
                   completionVars, text, tokens, shown, contents, context_text>>

NextPrompt == FormatContextCall \/ CreatePromptCall

SpecPrompt == InitPrompt /\ [][NextPrompt]_vars

----------------------------------------------------------------------------
(* format_context_from_multiple_sets called on any list of set names *)

\* the names listed: sets of the registry and a name that is none
ListedNames == {"a", "b", "x"}

InitMultiple ==
    /\ sets_config \in SetsConfigs
    /\ context_set = ContextSet("a", sets_config["a"])
    /\ all_sets = NoSets
    /\ resolved = FALSE
    /\ matching = NotResolved
    /\ unreadable \in {{}, {1}}
    /\ OPENAI_AVAILABLE = TRUE
    /\ ANTHROPIC_AVAILABLE = TRUE
    /\ NoQuery
    /\ NoText

\* format_context_from_multiple_sets(set_names, config_path); set_name keeps
\* the names listed, with commas between them
FormatMultipleSetsCall ==
    /\ pc = "Idle"
    /\ \E names \in BSeq(ListedNames, MaxSetNames) \ {<<>>} :
          LET built == format_context_from_multiple_sets(names, sets_config, unreadable) IN
          /\ set_name' = JoinComma([i \in DOMAIN names |-> <<names[i]>>])
          /\ calls' = calls \o built.calls
          /\ warnings' = built.warnings
          /\ context_files' = built.files
          /\ context' = built.context
          /\ total_tokens' = built.total_tokens
    /\ pc' = "Returned"
    /\ UNCHANGED <<resolveVars, envVars, stream, failure, answer, config, files_count,
                   provider, validated, prompt, streamVars, provider_config,
                   completionVars, textVars>>

NextMultiple == FormatMultipleSetsCall

SpecMultiple == InitMultiple /\ [][NextMultiple]_vars

----------------------------------------------------------------------------
(* format_context_from_files called on any list of files *)

\* longest list of files
MaxFiles == 3

\* the files a list may hold, in any order and more than once
ListedFiles == {1, 2, 3, 5}

InitFiles ==
    /\ sets_config = QuerySets
    /\ context_set = ContextSet("a", QuerySets["a"])
    /\ all_sets = NoSets
    /\ resolved = FALSE
    /\ matching = NotResolved
    /\ unreadable \in SUBSET {1, 3}
    /\ OPENAI_AVAILABLE = TRUE
    /\ ANTHROPIC_AVAILABLE = TRUE
    /\ NoQuery
    /\ NoText

\* format_context_from_files(files): the sections and the token total
FormatContextFromFilesCall ==
    /\ pc = "Idle"
    /\ calls' = Append(calls, "format_context_from_files")
    /\ \E files \in BSeq(ListedFiles, MaxFiles) :
          LET formatted == format_context_from_files(files, unreadable) IN
          /\ context_files' = files
          /\ context' = formatted.context
          /\ total_tokens' = formatted.total_tokens
    /\ pc' = "Returned"
    /\ UNCHANGED <<resolveVars, envVars, set_name, stream, failure, warnings, answer,
                   config, files_count, provider, validated, prompt, streamVars,
                   provider_config, completionVars, textVars>>

NextFiles == FormatContextFromFilesCall

SpecFiles == InitFiles /\ [][NextFiles]_vars

----------------------------------------------------------------------------
(* Properties of set resolution *)

\* the regular files of the tree, and what a pattern matches among them
RegularFiles == {1, 2, 3, 5}
PatternFiles(pattern) == Range(Glob(pattern)) \cap RegularFiles
DirectFiles(patterns) == UNION {PatternFiles(patterns[i]) : i \in DOMAIN patterns}

Occurrences(s, x) == Cardinality({i \in DOMAIN s : s[i] = x})

Without(s, x) == LET Keep(y) == y # x IN SelectSeq(s, Keep)

\* the includes of the set under resolution that the call expands
Expanded ==
    IF all_sets.given
    THEN {n \in Range(context_set.includes) :
              n \in DOMAIN all_sets.sets /\ n # context_set.name}
    ELSE {}

\* C1: whatever the patterns, the includes and the registry argument (none
\* included), the list get_matching_files returns is in ascending path order
\* and holds no path twice.
C1_SortedNoDuplicates ==
    resolved =>
        /\ \A i \in DOMAIN matching.files : \A j \in DOMAIN matching.files :
               i < j => matching.files[i] <= matching.files[j]
        /\ \A f \in Range(matching.files) : Occurrences(matching.files, f) = 1

\* a file matched by two patterns of the set and by two included sets
C1_Witness ==
    /\ resolved
    /\ \E f \in Range(matching.files) :
          /\ \E i \in DOMAIN context_set.match_patterns :
                \E j \in DOMAIN context_set.match_patterns :
                   /\ i # j
                   /\ context_set.match_patterns[i] # context_set.match_patterns[j]
                   /\ f \in PatternFiles(context_set.match_patterns[i])
                   /\ f \in PatternFiles(context_set.match_patterns[j])
          /\ \E n \in Expanded : \E k \in Expanded :
                /\ n # k
                /\ f \in DirectFiles(all_sets.sets[n].match_patterns)
                /\ f \in DirectFiles(all_sets.sets[k].match_patterns)
    /\ Len(matching.files) >= 3

\* C2: the result holds every file that the same patterns resolve to without
\* includes, and a file matched by a direct pattern and by an included set is
\* in the result exactly once.
C2_SupersetOfPatternsOnly ==
    resolved =>
        LET alone == ContextSet(context_set.name,
                                [match |-> context_set.match_patterns, include |-> <<>>])
        IN /\ Range(get_matching_files(alone, all_sets).files) \subseteq Range(matching.files)
           /\ \A f \in DirectFiles(context_set.match_patterns) :
                 (\E n \in Expanded : f \in DirectFiles(all_sets.sets[n].match_patterns))
                     => Occurrences(matching.files, f) = 1

\* a set with a pattern and an include that share a file, the include adding more
C2_Witness ==
    /\ resolved
    /\ \E f \in DirectFiles(context_set.match_patterns) : \E n \in Expanded :
          /\ f \in DirectFiles(all_sets.sets[n].match_patterns)
          /\ DirectFiles(all_sets.sets[n].match_patterns)
                 \ DirectFiles(context_set.match_patterns) # {}

\* every include of the set under resolution names another set of the registry
IncludesAllPresent ==
    /\ all_sets.given
    /\ \A n \in Range(context_set.includes) :
          n \in DOMAIN all_sets.sets /\ n # context_set.name

\* C3: when every include names another set present in the registry, the
\* result is exactly the union of the set's own pattern matches and the direct
\* pattern matches of each included set.
C3_ExactUnion ==
    (resolved /\ IncludesAllPresent) =>
        Range(matching.files) =
            DirectFiles(context_set.match_patterns)
                \cup UNION {DirectFiles(all_sets.sets[n].match_patterns) :
                                n \in Range(context_set.includes)}

\* a set without patterns that includes two sets, as "combined" includes
\* "markdown" and "subfolder"
C3_Witness ==
    /\ resolved
    /\ IncludesAllPresent
    /\ context_set.match_patterns = <<>>
    /\ context_set.includes = <<"a", "b">>
    /\ all_sets.sets["a"].match_patterns = <<"*.md">>
    /\ all_sets.sets["b"].match_patterns = <<"subfolder/*.md">>
    /\ matching.files = <<1, 2, 5>>

\* the set under resolution includes itself and is in the registry
SelfIncluded ==
    /\ all_sets.given
    /\ context_set.name \in Range(context_set.includes)
    /\ context_set.name \in DOMAIN all_sets.sets

\* C4: a set that includes itself is resolved without a nested call on
\* itself and at depth one at most; the result is that of the set with the
\* self-reference removed, and holds no path twice.
C4_SelfIncludeSkipped ==
    (resolved /\ context_set.name \in Range(context_set.includes)) =>
        LET plain == ContextSet(context_set.name,
                        [match |-> context_set.match_patterns,
                         include |-> Without(context_set.includes, context_set.name)])
        IN /\ context_set.name \notin Range(matching.calls)
           /\ matching.depth <= 1
           /\ matching.files = get_matching_files(plain, all_sets).files
           /\ \A f \in Range(matching.files) : Occurrences(matching.files, f) = 1

\* a registered set that includes itself and another set, and matches files
C4_Witness ==
    /\ resolved
    /\ SelfIncluded
    /\ Expanded # {}
    /\ DirectFiles(context_set.match_patterns) # {}
    /\ Len(matching.files) > Cardinality(DirectFiles(context_set.match_patterns))

----------------------------------------------------------------------------
(* Properties of execute_query *)

Called(op) == op \in Range(calls)

Count(op) == Occurrences(calls, op)

NoCompletion ==
    ~Called("get_completion") /\ ~Called("get_completion_stream") /\ ~Called("next")

\* the configuration was loaded and does not hold the requested model
ModelAbsent ==
    config.loaded /\ (~config.has_models \/ RequestedModel \notin config.models)

\* C5: with the requested model absent from the Models section, or the
\* section missing, the invocation ends in Failed and the configuration load
\* is the only operation ever called: no set resolution, no provider, no
\* completion.
C5_ModelAbsentStopsEarly ==
    ModelAbsent =>
        /\ calls = <<"load_config">>
        /\ pc \in {"ModelValidation", "Failed"}
        /\ pc = "Failed" => failure \in {"model not found", "exception"}

C5_Witness ==
    /\ ModelAbsent
    /\ config.has_models
    /\ pc = "Failed"
    /\ failure = "model not found"

\* the place of a step, and of an operation, in the order of the pipeline
Rank(step) ==
    CASE step = "ConfigLoading" -> 1
      [] step = "ModelValidation" -> 2
      [] step \in {"SetResolution", "Confirming"} -> 3
      [] step = "ProviderAcquisition" -> 4
      [] step = "ProviderValidation" -> 5
      [] step = "PromptBuilding" -> 6
      [] step \in {"Completing", "FirstChunk", "Streaming"} -> 7
      [] step = "Done" -> 8
      [] OTHER -> 0

CallRank(op) ==
    CASE op = "load_config" -> 1
      [] op \in {"get_context_set_files", "load_context_sets",
                 "format_context_from_files", "console.input"} -> 3
      [] op = "get_provider" -> 4
      [] op = "validate_config" -> 5
      [] op = "create_prompt" -> 6
      [] op \in {"get_completion", "get_completion_stream", "next"} -> 7
      [] OTHER -> 0

\* the step under way has done what the next one needs
Succeeded ==
    /\ pc = "ConfigLoading" => config'.loaded
    /\ pc = "ModelValidation" => ~ModelAbsent
    /\ (pc = "SetResolution" /\ \A i \in DOMAIN set_name : set_name[i] # ",")
           => Str(set_name) \in DOMAIN sets_config
    /\ pc = "Confirming" => answer' \in {"y", "Y"}
    /\ pc = "ProviderAcquisition" => provider' # NoProvider
    /\ pc = "ProviderValidation" => validated' = "true"

\* C6: the steps run in the order config load, model validation, set
\* resolution, provider acquisition, provider validation, prompt building,
\* completion, Done: a step is entered from the step before it only, and only
\* when that one succeeded; each operation is called in its own step; nothing
\* runs after Failed or Done.
C6_StepsInOrder ==
    [][/\ pc \notin {"Done", "Failed"}
       /\ pc' # "Failed" =>
             /\ Succeeded
             /\ \/ Rank(pc') = Rank(pc) + 1
                \/ pc = "SetResolution" /\ pc' = "Confirming"
                \/ pc = "Completing" /\ pc' = "FirstChunk"
                \/ pc \in {"FirstChunk", "Streaming"} /\ pc' = "Streaming"
       /\ Len(calls') >= Len(calls)
       /\ \A i \in DOMAIN calls' :
             IF i <= Len(calls) THEN calls'[i] = calls[i]
             ELSE CallRank(calls'[i]) = Rank(pc)]_vars

\* a run through every step to Done
C6_Witness ==
    /\ pc = "Done"
    /\ calls = <<"load_config", "get_context_set_files", "format_context_from_files",
                 "get_provider", "validate_config", "create_prompt", "get_completion">>

\* a request without a comma, and one with
SingleRequest == \A i \in DOMAIN set_name : set_name[i] # ","
MultiRequest == \E i \in DOMAIN set_name : set_name[i] = ","

\* C7: a single-set query for a name that is not in the registry ends in
\* Failed with the "not found" error once set resolution is reached; set
\* resolution is attempted once, and no provider is acquired or validated and
\* no completion requested.
C7_SingleSetNotFound ==
    (SingleRequest /\ Str(set_name) \notin DOMAIN sets_config) =>
        /\ ~Called("get_provider")
        /\ ~Called("validate_config")
        /\ NoCompletion
        /\ pc \in {"ConfigLoading", "ModelValidation", "SetResolution", "Failed"}
        /\ Called("get_context_set_files") =>
              /\ Count("get_context_set_files") = 1
              /\ pc = "Failed"
              /\ failure = "set not found"

C7_Witness ==
    /\ Str(set_name) = "x"
    /\ pc = "Failed"
    /\ failure = "set not found"
    /\ calls = <<"load_config", "get_context_set_files">>

\* the names of a request that are sets of the registry, and those that are not
FoundNames == {n \in Range(SetNames(set_name)) : n \in DOMAIN sets_config}
MissingNames == {n \in Range(SetNames(set_name)) : n \notin DOMAIN sets_config}

\* C8: in a multi-set query a name that is not in the registry gets a
\* warning and does not fail the invocation: set resolution hands over to
\* provider acquisition, with the files of every other named set in the
\* context.
C8_MissingSetSkipped ==
    (MultiRequest /\ MissingNames # {}) =>
        /\ failure # "set not found"
        /\ (pc = "Failed" /\ Called("get_context_set_files") /\ ~Called("get_provider"))
              => failure = "exception"
        /\ Rank(pc) > 3 =>
              /\ MissingNames \subseteq Range(warnings)
              /\ \A n \in FoundNames :
                    \A f \in DirectFiles(sets_config[n].match) :
                       /\ f \in Range(context_files)
                       /\ f \notin unreadable =>
                             \E i \in DOMAIN context : context[i].header = f

\* a request for a missing set and a set with files, completed
C8_Witness ==
    /\ MultiRequest
    /\ MissingNames # {}
    /\ FoundNames # {}
    /\ context # <<>>
    /\ pc = "Done"
    /\ Called("get_provider")

\* a single-set query for a set of the registry that matches no file
SingleEmptySet ==
    /\ SingleRequest
    /\ Str(set_name) \in DOMAIN sets_config
    /\ DirectFiles(sets_config[Str(set_name)].match) = {}
    /\ \A n \in Range(sets_config[Str(set_name)].include) :
          n \in DOMAIN sets_config => DirectFiles(sets_config[n].match) = {}

\* C9: when the single set of a query resolves to no file, the confirmation
\* prompt is the next operation after set resolution, and unless the answer
\* is y (in either case) the invocation ends in Failed as cancelled, with no
\* provider acquired and no completion requested.
C9_EmptySetNeedsConfirmation ==
    SingleEmptySet =>
        /\ \A i \in DOMAIN calls :
              (calls[i] = "get_context_set_files" /\ i < Len(calls))
                  => calls[i + 1] = "console.input"
        /\ Called("get_provider") => Called("console.input")
        /\ (Called("console.input") /\ answer \notin {"y", "Y"}) =>
              /\ pc = "Failed"
              /\ failure = "cancelled"
              /\ provider = NoProvider
              /\ ~Called("get_provider")
              /\ NoCompletion

C9_Witness ==
    /\ SingleEmptySet
    /\ answer = "n"
    /\ pc = "Failed"
    /\ failure = "cancelled"
    /\ calls = <<"load_config", "get_context_set_files", "console.input">>

\* C10: when get_provider returns no provider, or validate_config of the
\* provider returns false, the invocation ends in Failed and no completion is
\* ever requested.
C10_NoCompletionWithoutValidProvider ==
    ((Called("get_provider") /\ provider = NoProvider) \/ validated = "false") =>
        /\ pc = "Failed"
        /\ NoCompletion

C10_Witness ==
    /\ validated = "false"
    /\ provider # NoProvider
    /\ pc = "Failed"

\* get_provider returned None
C10_WitnessNone ==
    /\ Called("get_provider")
    /\ provider = NoProvider
    /\ pc = "Failed"

\* the invocation went through Completing, and ended there or is streaming
PastCompleting == pc \in {"FirstChunk", "Streaming", "Done"}

\* the operations execute_query calls once at most
OnceOnly ==
    {"load_config", "console.input", "get_provider", "validate_config", "create_prompt",
     "get_completion", "get_completion_stream"}

\* C11: an invocation issues one completion operation at most, and one
\* exactly once it is past Completing: get_completion_stream and never
\* get_completion with streaming on, get_completion and never
\* get_completion_stream (nor a pull) with streaming off; no operation of the
\* pipeline is called a second time, whatever failed.
C11_OneCompletionOperation ==
    /\ \A op \in OnceOnly : Count(op) <= 1
    /\ Count("get_completion") + Count("get_completion_stream") <= 1
    /\ stream => ~Called("get_completion")
    /\ ~stream => ~Called("get_completion_stream") /\ ~Called("next")
    /\ PastCompleting =>
          IF stream THEN Count("get_completion_stream") = 1
          ELSE Count("get_completion") = 1
    /\ SingleRequest => Count("get_context_set_files") <= 1
    /\ pulls = Count("next")

\* the backend failed the one get_completion call and the invocation went on
\* to Done with the error string as the response
C11_Witness ==
    /\ pc = "Done"
    /\ ~stream
    /\ backend_reply = "raises"
    /\ response_text = <<"Error: backend">>
    /\ Count("get_completion") = 1

\* a streamed response: one get_completion_stream, several pulls
C11_WitnessStream ==
    /\ pc = "Done"
    /\ stream
    /\ Count("get_completion_stream") = 1
    /\ Count("next") >= 2

\* C12: when config loading fails, or an exception comes out of any later
\* step, execute_query ends in Failed with the error message and does not
\* raise; the failing step calls nothing more, and from Failed (as from Done)
\* no step runs and nothing changes.
C12_ExceptionsCaught ==
    [][/\ pc' # "Raised"
       /\ (failure' = "exception" /\ failure # "exception") =>
             /\ pc' = "Failed"
             /\ calls' = IF pc = "ConfigLoading" THEN Append(calls, "load_config")
                         ELSE calls
             /\ response_text' = response_text
       /\ pc \in {"Failed", "Done"} => UNCHANGED vars]_vars

\* an exception out of a pull, in the middle of a streamed response
C12_Witness ==
    /\ pc = "Failed"
    /\ failure = "exception"
    /\ Called("next")
    /\ response_text # <<>>
    /\ gen = "running"

\* config loading failed
C12_WitnessConfig ==
    /\ pc = "Failed"
    /\ failure = "exception"
    /\ calls = <<"load_config">>
    /\ ~config.loaded

\* the sets of the registry that a registered set includes, itself left out
IncludedSets(name) ==
    {n \in Range(sets_config[name].include) : n \in DOMAIN sets_config /\ n # name}

\* C13: get_context_set_files raises KeyError exactly when the name asked
\* for is not a set of the registry; for a set of the registry it returns, in
\* ascending order and once each, the files of the set's own patterns and of
\* the patterns of every registered set it includes: its resolution with the
\* whole registry.
C13_KeyErrorIffAbsent ==
    (Called("get_context_set_files") /\ pc \in {"Returned", "Raised"}) =>
        LET name == Str(set_name) IN
        /\ pc = "Raised" <=> name \notin DOMAIN sets_config
        /\ pc = "Raised" => failure = "KeyError" /\ context_files = <<>>
        /\ pc = "Returned" =>
              /\ Range(context_files) =
                     DirectFiles(sets_config[name].match)
                        \cup UNION {DirectFiles(sets_config[n].match) :
                                        n \in IncludedSets(name)}
              /\ \A i \in DOMAIN context_files : \A j \in DOMAIN context_files :
                     i < j => context_files[i] < context_files[j]

\* a set whose include brings files its own patterns do not match
C13_Witness ==
    /\ pc = "Returned"
    /\ Str(set_name) = "a"
    /\ IncludedSets("a") = {"b"}
    /\ Range(context_files) \ DirectFiles(sets_config["a"].match) # {}
    /\ DirectFiles(sets_config["a"].match) # {}

\* a name that is no set of the registry
C13_WitnessAbsent ==
    /\ pc = "Raised"
    /\ failure = "KeyError"
    /\ Str(set_name) = "x"

----------------------------------------------------------------------------
(* Properties of the providers *)

\* the package the provider of an identifier needs is installed; FALSE for
\* an identifier that names no provider
BackendInstalled(id) ==
    CASE id \in {"openai", "gemini"} -> OPENAI_AVAILABLE
      [] id = "anthropic" -> ANTHROPIC_AVAILABLE
      [] OTHER -> FALSE

\* C14: get_provider returns None exactly when the identifier, in lower
\* case, is none of openai, anthropic and gemini, or the package its provider
\* needs is not installed (openai for gemini); otherwise it returns an
\* instance of the provider the identifier names. It raises in no case.
C14_NoneIffUnknownOrUnavailable ==
    (Called("get_provider") /\ pc \in {"Instance", "NoInstance", "Raised"}) =>
        LET id == LowerProvider(provider_config.provider) IN
        /\ pc # "Raised"
        /\ pc = "NoInstance" <=> provider = NoProvider
        /\ provider = NoProvider <=> ~BackendInstalled(id)
        /\ provider # NoProvider => provider.kind = id

\* gemini asked for without the openai package, anthropic being installed
C14_Witness ==
    /\ Called("get_provider")
    /\ pc = "NoInstance"
    /\ provider_config.provider = "gemini"
    /\ ~OPENAI_AVAILABLE
    /\ ANTHROPIC_AVAILABLE

\* an identifier in upper and lower case gives its provider
C14_WitnessInstance ==
    /\ Called("get_provider")
    /\ pc = "Instance"
    /\ provider_config.provider = "OpenAI"
    /\ provider.kind = "openai"

\* the credential, the model identifier and the client of an instance
Complete3(p) == p.api_key # "" /\ p.model # "" /\ p.client

\* C15: validate_config of any provider returns true only when the API
\* key, the model identifier and the client are all there.
C15_ValidOnlyIfComplete ==
    validated = "true" => Complete3(provider)

\* an error string of get_completion
IsError(string) == string \in {"Error: not configured", "Error: backend"}

FailedReply(p, reply) ==
    reply = "raises" \/ (reply = "nothing" /\ p.kind # "anthropic")

C16_WitnessMisconfigured ==
    /\ pc = "Returned"
    /\ provider.api_key = ""
    /\ completion.text = "Error: not configured"

Last(s) == s[Len(s)]

ErrorChunks(s) == {i \in DOMAIN s : IsError(s[i])}

\* C17: pulling from the generator of get_completion_stream never raises
\* and ends: each pull adds one chunk to those delivered, which stay as
\* they are, or ends the sequence; an error chunk (the backend failed before
\* the first chunk or after some, or the provider is not valid) comes once,
\* is the last chunk, and the pull after it ends the sequence.
C17_ErrorChunkIsLast ==
    [][pc = "Iterating" =>
          /\ pc' \in {"Iterating", "Exhausted"}
          /\ pulls' <= MaxChunks + 2
          /\ \/ response_text' = response_text /\ pc' = "Exhausted"
             \/ /\ Len(response_text') = Len(response_text) + 1
                /\ SubSeq(response_text', 1, Len(response_text)) = response_text
                /\ pc' = "Iterating"
          /\ (response_text # <<>> /\ IsError(Last(response_text))) => pc' = "Exhausted"
          /\ Cardinality(ErrorChunks(response_text')) <= 1
          /\ ErrorChunks(response_text') \subseteq {Len(response_text')}]_vars

\* the backend failed after a chunk: the chunk, the error chunk, the end
C17_Witness ==
    /\ pc = "Exhausted"
    /\ response_text = <<Chunk(1), "Error: backend">>
    /\ pulls = 3

\* the backend failed before the first chunk
C17_WitnessFirst ==
    /\ pc = "Exhausted"
    /\ validate_config(provider)
    /\ response_text = <<"Error: backend">>

----------------------------------------------------------------------------
(* Properties of the token estimate *)

\* where a maximal run of word characters starts, and the characters that
\* are neither word characters nor white space
RunStarts(s) == {i \in DOMAIN s : s[i] \in WordChars /\ ~IsWordAt(s, i - 1)}
Others(s) == {i \in DOMAIN s : s[i] \notin WordChars \cup SpaceChars}

\* C18: count_tokens_simple returns the number of maximal runs of word
\* characters plus the number of characters that are neither word characters
\* nor white space: 0 for the empty text, 2 for "hello world", 6 for
\* "one, two, three.".
C18_RunsPlusPunctuation ==
    Called("count_tokens_simple") =>
        /\ tokens = Cardinality(RunStarts(text)) + Cardinality(Others(text))
        /\ text = <<>> => tokens = 0
        /\ text = HelloWorld => tokens = 2
        /\ text = OneTwoThree => tokens = 6
        /\ (\A i \in DOMAIN text : text[i] \in SpaceChars) => tokens = 0

\* "one, two, three." counted
C18_Witness ==
    /\ Called("count_tokens_simple")
    /\ text = OneTwoThree
    /\ tokens = 6

\* a text of runs, punctuation and white space
C18_WitnessMixed ==
    /\ Called("count_tokens_simple")
    /\ text = <<"a", "_", " ", ",">>
    /\ tokens = 2

\* the distance between two numbers
Distance(a, b) == IF a >= b THEN a - b ELSE b - a

\* C19: format_token_count renders a count below 1000 as the plain integer,
\* a count from 1000 to 999999 as the nearest number of tenths of count/1000
\* (one decimal) followed by K, and a count of 1000000 or more as that of
\* count/1000000 followed by M: "0" for 0, "999" for 999, "1.0K" for 1000,
\* "1.5K" for 1500 and "1.0M" for 1000000.
C19_PlainThenKThenM ==
    Called("format_token_count") =>
        /\ tokens < 1000 => shown.unit = "" /\ shown.text = DecStr(tokens)
        /\ (tokens >= 1000 /\ tokens <= 999999) =>
              /\ shown.unit = "K"
              /\ Distance(tokens, 100 * shown.tenths) <= 50
              /\ shown = Fixed(shown.tenths, "K")
        /\ tokens >= 1000000 =>
              /\ shown.unit = "M"
              /\ Distance(tokens, 100000 * shown.tenths) <= 50000
              /\ shown = Fixed(shown.tenths, "M")
        /\ tokens = 0 => shown.text = "0"
        /\ tokens = 42 => shown.text = "42"
        /\ tokens = 999 => shown.text = "999"
        /\ tokens = 1000 => shown.text = "1.0K"
        /\ tokens = 1500 => shown.text = "1.5K"
        /\ tokens = 10500 => shown.text = "10.5K"
        /\ tokens = 1000000 => shown.text = "1.0M"
        /\ tokens = 2500000 => shown.text = "2.5M"

\* the first count shown with K
C19_Witness ==
    /\ Called("format_token_count")
    /\ tokens = 1000
    /\ shown.text = "1.0K"

\* the last count below a million: one decimal of 999.999
C19_WitnessRoundedUp ==
    /\ Called("format_token_count")
    /\ tokens = 999999
    /\ shown.text = "1000.0K"

----------------------------------------------------------------------------
(* Properties of the prompt *)

\* sub occurs in s
Occurs(sub, s) ==
    \E k \in 1..(Len(s) - Len(sub) + 1) : SubSeq(s, k, k + Len(sub) - 1) = sub

\* the header line of a section, and the section without it
HeaderLine(section) == <<"#", " ">> \o RelPath(section.header) \o <<"\n">>
BareSection(section, file_text) == file_text[section.content] \o <<"\n", "\n">>

\* C20: the prompt made with include_filenames=false holds no header line
\* of the prompt made with include_filenames=true, and between its opening
\* and the question it holds the context with the headers taken out and all
\* the rest as it was: the text of every file, whatever it is.
C20_HeadersGoneContentKept ==
    pc = "Built" =>
        /\ \A i \in DOMAIN context :
              /\ Occurs(HeaderLine(context[i]), prompts.with)
              /\ ~Occurs(HeaderLine(context[i]), prompts.without)
        /\ prompts.without =
              OpeningWithout
                 \o JoinNewline([i \in DOMAIN context |-> BareSection(context[i], contents)])
                 \o Closing("query")

----------------------------------------------------------------------------
(* Properties of the context of several sets *)

\* the names of a list kept in set_name
Listed == LET parts == Split(set_name) IN [i \in DOMAIN parts |-> Str(parts[i])]

\* the resolved files of each set of the registry among names, one list
\* after the other
RECURSIVE Concatenated(_)
Concatenated(names) ==
    IF names = <<>> THEN <<>>
    ELSE (IF Head(names) \in DOMAIN sets_config
          THEN get_context_set_files(Head(names), sets_config).files
          ELSE <<>>) \o Concatenated(Tail(names))

\* s with every element that occurred earlier in it removed
FirstOccurrences(s) ==
    LET keep == {i \in DOMAIN s : \A j \in 1..(i - 1) : s[j] # s[i]}
        Nth(k) == CHOOSE i \in keep : Cardinality({j \in keep : j <= i}) = k
    IN [k \in 1..Cardinality(keep) |-> s[Nth(k)]]

\* C21: format_context_from_multiple_sets hands format_context_from_files
\* the resolved files of the named sets, one set after the other in the order
\* of the names, every path that occurred earlier removed; no file has two
\* sections in the context.
C21_FirstOccurrenceWins ==
    (pc = "Returned" /\ Called("format_context_from_files")) =>
        /\ context_files = FirstOccurrences(Concatenated(Listed))
        /\ \A f \in Range(context_files) : Occurrences(context_files, f) = 1
        /\ \A i \in DOMAIN context : \A j \in DOMAIN context :
               context[i].header = context[j].header => i = j

\* two sets that share a file, the second one sorting before the first: the
\* list handed over is not in path order
C21_Witness ==
    /\ pc = "Returned"
    /\ Called("format_context_from_files")
    /\ Len(Listed) = 2
    /\ Listed[1] # Listed[2]
    /\ \E f \in Range(context_files) : Occurrences(Concatenated(Listed), f) = 2
    /\ \E i \in DOMAIN context_files : \E j \in DOMAIN context_files :
          i < j /\ context_files[i] > context_files[j]
    /\ Len(context) = Len(context_files)
----------------------------------------------------------------------------
(* Properties of nested includes *)

\* the sets that the expanded includes include in their turn, and that the
\* set under resolution does not reach itself
SecondLevel ==
    {m \in DOMAIN all_sets.sets :
        /\ m \notin Expanded
        /\ m # context_set.name
        /\ \E n \in Expanded : m \in Range(all_sets.sets[n].includes)}

\* C22: the included sets are resolved without the registry: the result is
\* the set's own matches and the direct matches of the sets it includes,
\* nothing of what those include; every nested call is on an include of the
\* set itself and calls no further, so the depth is one at most on any include
\* graph, cycles included.
C22_OneLevelOnly ==
    resolved =>
        /\ matching.depth <= 1
        /\ Range(matching.calls) = Expanded
        /\ Len(matching.calls) <= Len(context_set.includes)
        /\ Range(matching.files) =
               DirectFiles(context_set.match_patterns)
                   \cup UNION {DirectFiles(all_sets.sets[n].match_patterns) : n \in Expanded}

\* s includes a and a includes b, whose files neither s nor a matches
C22_Witness ==
    /\ resolved
    /\ context_set.name = "s"
    /\ Expanded = {"a"}
    /\ SecondLevel = {"b"}
    /\ DirectFiles(all_sets.sets["b"].match_patterns) \ Range(matching.files) # {}
    /\ DirectFiles(all_sets.sets["a"].match_patterns) # {}
    /\ matching.depth = 1

\* a cycle of length two: a includes b and b includes a
C22_WitnessCycle ==
    /\ resolved
    /\ all_sets.given
    /\ context_set.name = "a"
    /\ "b" \in Range(context_set.includes)
    /\ "a" \in Range(all_sets.sets["b"].includes)
    /\ matching.calls = <<"b">>
    /\ matching.depth = 1
----------------------------------------------------------------------------
(* Properties of includes that are not in the registry *)

\* the includes of the set under resolution that the registry does not hold
Absent ==
    IF all_sets.given
    THEN {n \in Range(context_set.includes) : n \notin DOMAIN all_sets.sets}
    ELSE {}

\* the includes of s without those of the set gone
RECURSIVE WithoutAll(_, _)
WithoutAll(s, gone) ==
    IF s = <<>> THEN <<>>
    ELSE (IF Head(s) \in gone THEN <<>> ELSE <<Head(s)>>) \o WithoutAll(Tail(s), gone)

\* C23: an include that the supplied registry does not hold gets a warning,
\* once for each time it is listed, and no nested call; the call returns the
\* list it returns for the same set without those includes: the set's own
\* matches and the matches of its other includes.
C23_AbsentIncludeWarned ==
    (resolved /\ all_sets.given) =>
        LET rest == ContextSet(context_set.name,
                        [match |-> context_set.match_patterns,
                         include |-> WithoutAll(context_set.includes, Absent)])
        IN /\ Range(matching.warnings) = Absent
           /\ \A n \in Absent :
                 Occurrences(matching.warnings, n) = Occurrences(context_set.includes, n)
           /\ Absent \cap Range(matching.calls) = {}
           /\ matching.files = get_matching_files(rest, all_sets).files
           /\ DirectFiles(context_set.match_patterns) \subseteq Range(matching.files)
           /\ \A n \in Expanded :
                 DirectFiles(all_sets.sets[n].match_patterns) \subseteq Range(matching.files)

\* an include that is no set, listed before one that is and that adds files
C23_Witness ==
    /\ resolved
    /\ all_sets.given
    /\ context_set.name = "a"
    /\ context_set.includes = <<"s", "b">>
    /\ matching.warnings = <<"s">>
    /\ matching.calls = <<"b">>
    /\ DirectFiles(context_set.match_patterns) # {}
    /\ Len(matching.files) > Cardinality(DirectFiles(context_set.match_patterns))
----------------------------------------------------------------------------
(* Properties of the names of a request *)

\* the names of the request without the white space around them
Trimmed == LET parts == Split(set_name) IN [i \in DOMAIN parts |-> Str(Strip(parts[i]))]

\* C24: the names of a request are looked up without the white space around
\* them, a single name as well as each name of a list: once set resolution
\* has run, a single name that is a set when trimmed is found, and the files
\* resolved are those of the trimmed names.
C24_NamesTrimmedBeforeLookup ==
    Called("get_context_set_files") =>
        IF SingleRequest
        THEN Trimmed[1] \in DOMAIN sets_config =>
                /\ failure # "set not found"
                /\ context_files = get_context_set_files(Trimmed[1], sets_config).files
        ELSE context_files = FirstOccurrences(Concatenated(Trimmed))
----------------------------------------------------------------------------
(* Properties of the streamed response *)

\* C25: with streaming on, the status is up for the first pull and for no
\* other: it is up from get_completion_stream to the first pull, with nothing
\* of the response shown, and it is down once the first pull is made; every
\* other pull comes after that, one pull a step, and the invocation is Done
\* only when a pull found the sequence at its end.
C25_OnePullUnderStatus ==
    [][/\ pulls' # pulls =>
             /\ pulls' = pulls + 1
             /\ thinking <=> pulls = 0
             /\ ~thinking'
       /\ thinking' => (pc' = "FirstChunk" /\ pulls' = 0 /\ response_text' = <<>>)
       /\ (stream /\ response_text' # <<>>) => (~thinking' /\ pulls' >= 1)
       /\ (pc = "Streaming" /\ pc' # "Failed") => pulls' = pulls + 1
       /\ (stream /\ pc' = "Done") => (gen' = "exhausted" /\ pc = "Streaming")]_vars

\* a response of two chunks, streamed to its end: the first pull under the
\* status, two more after it
C25_Witness ==
    /\ stream
    /\ pc = "Done"
    /\ pulls = 3
    /\ Len(response_text) = 2
    /\ ~thinking

\* the status is up and the first pull is still to come
C25_WitnessWaiting ==
    /\ stream
    /\ thinking
    /\ pc = "FirstChunk"
    /\ pulls = 0
\* the pulls so far that found the sequence at its end: the last one, and
\* the first one too when the sequence held no chunk
EndingPulls ==
    IF gen # "exhausted" THEN 0
    ELSE IF pc = "Done" /\ response_text = <<>> THEN 2
    ELSE 1

\* the text shown is the chunks pulled so far, in the order they were pulled
ShownInOrder ==
    /\ Len(response_text) = pulls - EndingPulls
    /\ \A i \in DOMAIN response_text :
          \/ response_text[i] = Chunk(i)
          \/ i = Len(response_text) /\ IsError(response_text[i])

\* C26: with streaming on, the text shown after each pull is the chunks
\* pulled so far, each once and in the order of the sequence: a pull adds its
\* chunk at the end and leaves the text before it as it was; the pull that
\* finds the sequence ended changes nothing, and after a sequence without any
\* chunk the text is empty and the loop still goes to Done.
C26_ShownIsChunksSoFar ==
    [][stream =>
          /\ ShownInOrder'
          /\ pulls' # pulls =>
                IF gen' = "exhausted"
                THEN response_text' = response_text
                ELSE /\ Len(response_text') = Len(response_text) + 1
                     /\ SubSeq(response_text', 1, Len(response_text)) = response_text
          /\ (pc = "Streaming" /\ gen = "exhausted" /\ pc' # "Failed") =>
                (pc' = "Done" /\ response_text' = response_text)
          /\ (pc = "FirstChunk" /\ gen' = "exhausted") =>
                (pc' = "Streaming" /\ response_text' = <<>>)]_vars

\* every chunk of the longest sequence, shown in order
C26_Witness ==
    /\ stream
    /\ pc = "Done"
    /\ Len(response_text) = MaxChunks
    /\ \A i \in DOMAIN response_text : response_text[i] = Chunk(i)
    /\ pulls = MaxChunks + 1

\* a sequence without any chunk: Done with nothing shown
C26_WitnessEmpty ==
    /\ stream
    /\ pc = "Done"
    /\ response_text = <<>>
    /\ pulls = 2
----------------------------------------------------------------------------
(* Properties of format_context_from_files *)

\* the files of the list that open, in the order of the list
Readable == LET Opens(f) == f \notin unreadable IN SelectSeq(context_files, Opens)

\* the token estimates of the files of the sections, added up
RECURSIVE SectionTokens(_)
SectionTokens(ctx) ==
    IF ctx = <<>> THEN 0 ELSE FileTokens(Head(ctx).header) + SectionTokens(Tail(ctx))

\* C27: format_context_from_files returns one section for each file of the
\* list that opens, in the order of the list, and none for a file that does
\* not open, which does not fail the call; the token total is the sum of the
\* estimates of the files that have a section; an empty list gives an empty
\* context and zero tokens.
C27_ReadableInOrder ==
    pc = "Returned" =>
        /\ failure = ""
        /\ Len(context) = Len(Readable)
        /\ \A i \in DOMAIN context :
              context[i] = [header |-> Readable[i], content |-> Readable[i]]
        /\ total_tokens = SectionTokens(context)
        /\ context_files = <<>> =>
              /\ context = <<>>
              /\ total_tokens = 0
              /\ ContextText(context, <<>>) = <<>>

\* a list that is not in path order, with a file that does not open between
\* two that do
C27_Witness ==
    /\ pc = "Returned"
    /\ Len(context_files) = 3
    /\ context_files[2] \in unreadable
    /\ context_files[1] > context_files[3]
    /\ Len(context) = 2
    /\ total_tokens = FileTokens(context_files[1]) + FileTokens(context_files[3])
    /\ total_tokens > 0

\* the empty list
C27_WitnessEmpty ==
    /\ pc = "Returned"
    /\ context_files = <<>>
    /\ total_tokens = 0
----------------------------------------------------------------------------
(* Properties of a query for several sets *)

\* no name of the request is a set with files
NoFilesNamed ==
    \A i \in DOMAIN Trimmed :
        \/ Trimmed[i] \notin DOMAIN sets_config
        \/ get_context_set_files(Trimmed[i], sets_config).files = <<>>

\* C28: a query for several sets is never asked to confirm an empty
\* context: the question is not put, and once the sets are resolved the
\* invocation is at provider acquisition or past it (or failed there or
\* later), also when no name of the request is a set with files; the context
\* is then empty and the token total zero.
C28_MultiSetNeverConfirms ==
    MultiRequest =>
        /\ pc # "Confirming"
        /\ ~Called("console.input")
        /\ answer = "not asked"
        /\ failure # "cancelled"
        /\ Called("format_context_from_files") =>
              /\ Rank(pc) >= 4 \/ pc = "Failed"
              /\ (pc = "Failed" /\ ~Called("get_provider")) => failure = "exception"
              /\ NoFilesNamed =>
                    (context_files = <<>> /\ context = <<>> /\ total_tokens = 0)

\* a request for a set without files and a name that is no set, completed
C28_Witness ==
    /\ MultiRequest
    /\ NoFilesNamed
    /\ FoundNames # {}
    /\ MissingNames # {}
    /\ pc = "Done"
    /\ Called("get_completion")
    /\ context = <<>>
    /\ total_tokens = 0
    /\ answer = "not asked"
\* C29: in a query that has reached Completing, the file count of the
\* "Context:" line is the number of distinct files handed to
\* format_context_from_files, for one set and for several, sets that share
\* files and a set named twice included.
C29_FilesCountIsDistinctFiles ==
    Rank(pc) >= 7 => files_count = Cardinality(Range(context_files))
----------------------------------------------------------------------------
(* Properties of the whole run *)

\* the place of a step in execute_query, from top to bottom
Position(step) ==
    CASE step = "ConfigLoading" -> 1
      [] step = "ModelValidation" -> 2
      [] step = "SetResolution" -> 3
      [] step = "Confirming" -> 4
      [] step = "ProviderAcquisition" -> 5
      [] step = "ProviderValidation" -> 6
      [] step = "PromptBuilding" -> 7
      [] step = "Completing" -> 8
      [] step = "FirstChunk" -> 9
      [] step = "Streaming" -> 10
      [] OTHER -> 11

\* the response was put out: the text get_completion returned, or the text
\* streamed, shown under "Response:" with the status down
ResponseEmitted ==
    /\ ~thinking
    /\ IF stream
       THEN Called("get_completion_stream") /\ pulls >= 2 /\ gen = "exhausted"
       ELSE Called("get_completion") /\ response_text = <<completion.text>>

\* C30: every invocation of execute_query comes to Done or to Failed and
\* stays there; each step goes to a later step or ends the invocation, with
\* the streaming loop alone going round, once for each chunk of the finite
\* sequence; Done comes only with the response put out.
C30_EndsInDoneOrFailed ==
    /\ <>(pc \in {"Done", "Failed"})
    /\ [][/\ pc \in {"Done", "Failed"} => pc' = pc
          /\ pc \notin {"Done", "Failed"} =>
                \/ Position(pc') > Position(pc)
                \/ /\ pc = "Streaming" /\ pc' = "Streaming"
                   /\ pulls' = pulls + 1
                   /\ Len(response_text') = Len(response_text) + 1
                   /\ Len(response_text') <= MaxChunks + 1
          /\ pc' = "Done" => ResponseEmitted']_vars

\* a run through the question and the streaming loop to Done
C30_Witness ==
    /\ pc = "Done"
    /\ Called("console.input")
    /\ answer \in {"y", "Y"}
    /\ stream
    /\ Len(response_text) = MaxChunks
    /\ ResponseEmitted

\* a run ended in Failed by an exception in the streaming loop
C30_WitnessFailed ==
    /\ pc = "Failed"
    /\ failure = "exception"
    /\ stream
    /\ pulls >= 2
====

